---- MODULE Spec2Model ----
(***************************************************************************)
(* BizarroMath: chunk-limb big numbers (MegaNumber and its subclasses),    *)
(* the size-adaptive multiplier and the exact rational layer.              *)
(*                                                                         *)
(* A limb sequence is a TLA+ sequence, index 1 = least significant limb    *)
(* (the source's index 0).                                                 *)
(***************************************************************************)
EXTENDS Integers, Sequences, FiniteSets, TLC

VARIABLES op, a, b, res, x, steps

vars == <<op, a, b, res, x, steps>>

(***************************************************************************)
(* Process-wide limb width.  _auto_pick_chunk_size takes the fastest of    *)
(* the candidates [8, 16, 32, 64]; the model fixes the first candidate.    *)
(***************************************************************************)
_global_chunk_size == 8

_base == 2 ^ _global_chunk_size

_mask == _base - 1

(***************************************************************************)
(* Bounds of the model.                                                    *)
(***************************************************************************)
MaxLen == 2

MaxSteps == 3

MaxInt == 2

MaxStrLen == 2

MaxPowExp == 5

LimbSamples == {0, 1, 3, _base \div 2, _mask}

\* [0] * n
RECURSIVE Zeros(_)
Zeros(n) ==
    IF n <= 0 THEN <<>> ELSE IF n = 1 THEN <<0>>
    ELSE Zeros(n \div 2) \o Zeros(n - n \div 2)

\* The long loops run their iterations lo..hi in order; a range is split in
\* halves so that a loop over n limbs nests log n deep.  st carries the array
\* and the carry from one iteration to the next.

\* true of every array: asked of the first half's result before the second half
\* starts, so that the halves are evaluated in order
Evaluated(arr) == Len(arr) >= 0

\* name = expression: the expression is evaluated once and the name holds its
\* value in what follows
Bind(v, F(_)) == CHOOSE r \in {F(w) : w \in {v}} : TRUE

Bind2(v1, v2, F(_, _)) == CHOOSE r \in {F(w1, w2) : w1 \in {v1}, w2 \in {v2}} : TRUE

Max(m, n) == IF m >= n THEN m ELSE n

Abs(v) == IF v < 0 THEN -v ELSE v

\* canonical: at least one limb, no zero top limb unless the sequence is [0]
IsCanonical(s) == Len(s) >= 1 /\ (s[Len(s)] # 0 \/ s = <<0>>)

(***************************************************************************)
(* Limb primitives of MegaNumber.                                          *)
(***************************************************************************)

\* while len(out) > 1 and out[-1] == 0: out.pop()
RECURSIVE StripZeros(_)
StripZeros(s) ==
    IF Len(s) > 1 /\ s[Len(s)] = 0 THEN StripZeros(SubSeq(s, 1, Len(s) - 1)) ELSE s

RECURSIVE IntToChunkLoop(_, _, _)
IntToChunkLoop(val, cs, out) ==
    IF val > 0 THEN IntToChunkLoop(val \div (2 ^ cs), cs, Append(out, val % (2 ^ cs)))
    ELSE out

_int_to_chunklist(val, cs) ==
    IF val = 0 THEN <<0>> ELSE IntToChunkLoop(val, cs, <<>>)

RECURSIVE ChunkToIntLoop(_, _, _, _)
ChunkToIntLoop(limbs, i, shift, val) ==
    IF i > Len(limbs) THEN val
    ELSE ChunkToIntLoop(limbs, i + 1, shift + _global_chunk_size, val + limbs[i] * (2 ^ shift))

_chunklist_to_int(limbs) == ChunkToIntLoop(limbs, 1, 0, 0)

RECURSIVE CompareLoop(_, _, _)
CompareLoop(A, B, i) ==
    IF i < 1 THEN 0
    ELSE IF A[i] > B[i] THEN 1
    ELSE IF A[i] < B[i] THEN -1
    ELSE CompareLoop(A, B, i - 1)

_compare_abs(A, B) ==
    IF Len(A) > Len(B) THEN 1
    ELSE IF Len(B) > Len(A) THEN -1
    ELSE CompareLoop(A, B, Len(A))

RECURSIVE AddLoop(_, _, _, _, _)
AddLoop(A, B, i, carry, out) ==
    IF i > Max(Len(A), Len(B))
    THEN IF carry # 0 THEN Append(out, carry) ELSE out
    ELSE LET av == IF i <= Len(A) THEN A[i] ELSE 0
             bv == IF i <= Len(B) THEN B[i] ELSE 0
             s  == av + bv + carry
         IN AddLoop(A, B, i + 1, s \div (2 ^ _global_chunk_size), Append(out, s % _base))

\* _add_chunklists without "if carry: out.append(carry)"
_add_chunklists_no_carry(A, B) ==
    StripZeros(SubSeq(AddLoop(A, B, 1, 0, <<>>), 1, Max(Len(A), Len(B))))

_add_chunklists(A, B) == StripZeros(AddLoop(A, B, 1, 0, <<>>))

RECURSIVE SubLoop(_, _, _, _, _)
SubLoop(A, B, i, carry, out) ==
    IF i > Max(Len(A), Len(B)) THEN out
    ELSE LET av == IF i <= Len(A) THEN A[i] ELSE 0
             bv == IF i <= Len(B) THEN B[i] ELSE 0
             d0 == av - bv - carry
             diff == IF d0 < 0 THEN d0 + _base ELSE d0
         IN SubLoop(A, B, i + 1, IF d0 < 0 THEN 1 ELSE 0, Append(out, diff % _base))

_sub_chunklists(A, B) == StripZeros(SubLoop(A, B, 1, 0, <<>>))

\* inner loop of _mul_chunklists: for j in range(lb), iterations lo..hi of
\* row i; st carries out and carry from one iteration to the next
RECURSIVE MulInner(_, _, _, _, _, _, _, _)
MulInner(st, av, B, i, lo, hi, cs, bs) ==
    IF lo > hi THEN st
    ELSE IF lo = hi
    THEN LET mul_val == av * B[lo] + st.out[i + lo - 1] + st.carry
         IN [out |-> [st.out EXCEPT ![i + lo - 1] = mul_val % bs],
             carry |-> mul_val \div (2 ^ cs)]
    ELSE LET left == MulInner(st, av, B, i, lo, (lo + hi) \div 2, cs, bs)
         IN IF Evaluated(left.out)
            THEN MulInner(left, av, B, i, (lo + hi) \div 2 + 1, hi, cs, bs)
            ELSE left

\* one pass of the outer loop: the inner loop, then "if carry: out[i+lb] += carry"
MulRow(out, av, B, i, cs, bs) ==
    LET r == MulInner([out |-> out, carry |-> 0], av, B, i, 1, Len(B), cs, bs)
    IN IF r.carry # 0
       THEN [r.out EXCEPT ![i + Len(B)] = r.out[i + Len(B)] + r.carry]
       ELSE r.out

\* outer loop of _mul_chunklists: for i in range(la), rows lo..hi
RECURSIVE MulOuter(_, _, _, _, _, _, _)
MulOuter(out, A, B, lo, hi, cs, bs) ==
    IF lo > hi THEN out
    ELSE IF lo = hi THEN MulRow(out, A[lo], B, lo, cs, bs)
    ELSE LET left == MulOuter(out, A, B, lo, (lo + hi) \div 2, cs, bs)
         IN IF Evaluated(left)
            THEN MulOuter(left, A, B, (lo + hi) \div 2 + 1, hi, cs, bs)
            ELSE left

_mul_chunklists(A, B, cs, bs) ==
    StripZeros(MulOuter(Zeros(Len(A) + Len(B)), A, B, 1, Len(A), cs, bs))

\* the binary search with "cmpv < 0" for "cmpv <= 0"
RECURSIVE GuessLoop_strict(_, _, _, _, _)
GuessLoop_strict(B, R, low, high, guess) ==
    IF low > high THEN guess
    ELSE Bind((low + high) \div 2, LAMBDA mid :
             Bind(_mul_chunklists(B, <<mid>>, _global_chunk_size, _base), LAMBDA mm :
                 Bind(_compare_abs(mm, R), LAMBDA cmpv :
                     IF cmpv < 0 THEN GuessLoop_strict(B, R, mid + 1, high, mid)
                     ELSE GuessLoop_strict(B, R, low, mid - 1, guess))))

\* binary search of _div_chunk for one quotient limb
RECURSIVE GuessLoop(_, _, _, _, _)
GuessLoop(B, R, low, high, guess) ==
    IF low > high THEN guess
    ELSE Bind((low + high) \div 2, LAMBDA mid :
             Bind(_mul_chunklists(B, <<mid>>, _global_chunk_size, _base), LAMBDA mm :
                 Bind(_compare_abs(mm, R), LAMBDA cmpv :
                     IF cmpv <= 0 THEN GuessLoop(B, R, mid + 1, high, mid)
                     ELSE GuessLoop(B, R, low, mid - 1, guess))))

\* for i in range(len(A)-1, -1, -1) of _div_chunk; trace records, for each
\* quotient limb, the running remainder the search saw and the guess it found
RECURSIVE DivLoop(_, _, _, _, _, _)
DivLoop(A, B, i, Q, R, trace) ==
    IF i < 1 THEN [R |-> StripZeros(R), Q |-> StripZeros(Q), trace |-> trace, err |-> ""]
    ELSE Bind(_add_chunklists(_mul_chunklists(R, <<_base>>, _global_chunk_size, _base),
                              <<A[i]>>), LAMBDA R2 :
             Bind(GuessLoop(B, R2, 0, _base - 1, 0), LAMBDA guess :
                 Bind(IF guess # 0
                      THEN _sub_chunklists(R2, _mul_chunklists(B, <<guess>>,
                                                               _global_chunk_size, _base))
                      ELSE R2, LAMBDA R3 :
                     Bind2([Q EXCEPT ![i] = guess], Append(trace, [R |-> R2, guess |-> guess]),
                           LAMBDA Q1, trace1 : DivLoop(A, B, i - 1, Q1, R3, trace1)))))

_div_chunk(A, B) ==
    IF Len(B) = 1 /\ B[1] = 0
    THEN [R |-> <<>>, Q |-> <<>>, trace |-> <<>>, err |-> "ZeroDivisionError"]
    ELSE LET c == _compare_abs(A, B)
         IN IF c < 0 THEN [R |-> A, Q |-> <<0>>, trace |-> <<>>, err |-> ""]
            ELSE IF c = 0 THEN [R |-> <<0>>, Q |-> <<1>>, trace |-> <<>>, err |-> ""]
            ELSE DivLoop(A, B, Len(A), Zeros(Len(A)), <<0>>, <<>>)

RECURSIVE Div2Loop(_, _, _, _)
Div2Loop(limbs, i, carry, out) ==
    IF i < 1 THEN out
    ELSE LET val == carry * (2 ^ _global_chunk_size) + limbs[i]
         IN Div2Loop(limbs, i - 1, val % 2, <<val \div 2>> \o out)

_div2(limbs) == StripZeros(Div2Loop(limbs, Len(limbs), 0, <<>>))

(***************************************************************************)
(* BigNumber records.  cls is the Python class of the object; a failed     *)
(* call is the record Err(kind).  None stands for an argument left out.    *)
(***************************************************************************)
None == <<-1>>

Num(cls, m, e, neg, isf, eneg) ==
    [err |-> "", cls |-> cls, mantissa |-> m, exponent |-> e, negative |-> neg,
     is_float |-> isf, exponent_negative |-> eneg]

Err(kind) ==
    [err |-> kind, cls |-> "Error", mantissa |-> <<0>>, exponent |-> <<0>>,
     negative |-> FALSE, is_float |-> FALSE, exponent_negative |-> FALSE]

IsErr(r) == r.cls = "Error"

IsZeroLimbs(m) == Len(m) = 1 /\ m[1] = 0

\* _normalize without the loop that pops zero limbs off the mantissa
_normalize_unstripped(self) ==
    LET e == IF self.is_float THEN StripZeros(self.exponent) ELSE self.exponent
    IN IF IsZeroLimbs(self.mantissa)
       THEN [self EXCEPT !.negative = FALSE, !.exponent = <<0>>, !.exponent_negative = FALSE]
       ELSE [self EXCEPT !.exponent = e]

\* _normalize without the reset of the sign and exponent of a zero
_normalize_signed_zero(self) ==
    LET m == StripZeros(self.mantissa)
        e == IF self.is_float THEN StripZeros(self.exponent) ELSE self.exponent
    IN [self EXCEPT !.mantissa = m, !.exponent = e]

_normalize(self) ==
    LET m == StripZeros(self.mantissa)
        e == IF self.is_float THEN StripZeros(self.exponent) ELSE self.exponent
    IN IF IsZeroLimbs(m)
       THEN [self EXCEPT !.mantissa = m, !.negative = FALSE, !.exponent = <<0>>,
                         !.exponent_negative = FALSE]
       ELSE [self EXCEPT !.mantissa = m, !.exponent = e]

\* MegaNumber.__init__, also reached through super().__init__ of the subclasses
MegaNumberInit(cls, mantissa, exponent, negative, is_float, exponent_negative) ==
    _normalize(Num(cls,
                   IF mantissa = None THEN <<0>> ELSE mantissa,
                   IF exponent = None THEN <<0>> ELSE exponent,
                   negative, is_float, exponent_negative))

MegaNumber(mantissa, exponent, negative, is_float, exponent_negative) ==
    MegaNumberInit("MegaNumber", mantissa, exponent, negative, is_float, exponent_negative)

\* MegaInteger.__init__ with value=None: a missing mantissa or exponent reads
\* self._chunk_code, an attribute no class of the package defines
MegaInteger(mantissa, exponent, negative, is_float, exponent_negative) ==
    IF mantissa = None \/ exponent = None THEN Err("AttributeError")
    ELSE MegaNumberInit("MegaInteger", mantissa, exponent, negative, FALSE, exponent_negative)

\* MegaFloat.__init__ with value=None
MegaFloat(mantissa, exponent, negative, is_float, exponent_negative) ==
    IF mantissa = None \/ exponent = None THEN Err("AttributeError")
    ELSE MegaNumberInit("MegaFloat", mantissa, exponent, negative, TRUE, exponent_negative)

copy(self) ==
    IF self.cls = "MegaInteger"
    THEN _normalize(MegaInteger(self.mantissa, self.exponent, self.negative,
                                self.is_float, self.exponent_negative))
    ELSE IF self.cls = "MegaFloat"
    THEN _normalize(MegaFloat(self.mantissa, self.exponent, self.negative,
                              self.is_float, self.exponent_negative))
    ELSE _normalize(MegaNumber(self.mantissa, self.exponent, self.negative,
                               self.is_float, self.exponent_negative))

from_int(val) ==
    IF val = 0 THEN MegaNumber(<<0>>, <<0>>, FALSE, FALSE, FALSE)
    ELSE MegaNumber(_int_to_chunklist(Abs(val), _global_chunk_size), <<0>>, val < 0,
                    FALSE, FALSE)

_to_subclass(self) ==
    IF self.is_float
    THEN IF self.cls = "MegaFloat" THEN self
         ELSE MegaFloat(self.mantissa, self.exponent, self.negative, TRUE,
                        self.exponent_negative)
    ELSE IF self.cls = "MegaInteger" THEN self
         ELSE MegaInteger(self.mantissa, self.exponent, self.negative, FALSE,
                          self.exponent_negative)

(***************************************************************************)
(* Strings are sequences of one-character strings.                         *)
(***************************************************************************)
DigitChars == <<"0", "1", "2", "3", "4", "5", "6", "7", "8", "9">>

IsDigit(ch) == \E i \in 1..Len(DigitChars) : DigitChars[i] = ch

DigitVal(ch) == (CHOOSE i \in 1..Len(DigitChars) : DigitChars[i] = ch) - 1

RECURSIVE StrStrip(_)
StrStrip(s) ==
    IF s # <<>> /\ s[1] = " " THEN StrStrip(Tail(s))
    ELSE IF s # <<>> /\ s[Len(s)] = " " THEN StrStrip(SubSeq(s, 1, Len(s) - 1))
    ELSE s

\* s.find('.') as a 1-based position, 0 when there is none
FindPoint(s) ==
    IF \E i \in 1..Len(s) : s[i] = "."
    THEN CHOOSE i \in 1..Len(s) : s[i] = "." /\ \A j \in 1..(i - 1) : s[j] # "."
    ELSE 0

NotPoint(ch) == ch # "."

\* the "add digit" loop of from_decimal_string
RECURSIVE AddDigitLoop(_, _, _)
AddDigitLoop(mant_limb, carry, idx) ==
    IF carry # 0 \/ idx <= Len(mant_limb)
    THEN LET m1 == IF idx = Len(mant_limb) + 1 THEN Append(mant_limb, 0) ELSE mant_limb
             ssum == m1[idx] + carry
         IN AddDigitLoop([m1 EXCEPT ![idx] = ssum % _base],
                         ssum \div (2 ^ _global_chunk_size), idx + 1)
    ELSE mant_limb

RECURSIVE ParseDigits(_, _, _)
ParseDigits(s, i, mant_limb) ==
    IF i > Len(s) THEN mant_limb
    ELSE ParseDigits(s, i + 1,
             AddDigitLoop(_mul_chunklists(mant_limb, <<10>>, _global_chunk_size, _base),
                          DigitVal(s[i]), 1))

\* int(math.ceil(frac_len * math.log2(10))): the least n with 2^n >= 10^frac_len
RECURSIVE CeilLog2Loop(_, _)
CeilLog2Loop(target, n) == IF 2 ^ n >= target THEN n ELSE CeilLog2Loop(target, n + 1)

ShiftBits(frac_len) == CeilLog2Loop(10 ^ frac_len, 0)

\* MegaNumber.from_decimal_string called on the class MegaNumber
from_decimal_string(dec_str) ==
    LET s0 == StrStrip(dec_str)
    IN IF s0 = <<>> THEN MegaNumber(<<0>>, <<0>>, FALSE, FALSE, FALSE)
       ELSE LET negative == s0[1] = "-"
                s1 == IF negative THEN StrStrip(Tail(s0)) ELSE s0
                point_pos == FindPoint(s1)
                frac_len == IF point_pos > 0 THEN Len(s1) - point_pos ELSE 0
                s2 == SelectSeq(s1, NotPoint)
            IN IF \E i \in 1..Len(s2) : ~IsDigit(s2[i]) THEN Err("ValueError")
               ELSE LET mant_limb == ParseDigits(s2, 1, <<0>>)
                        obj == IF frac_len > 0
                               THEN MegaNumber(mant_limb,
                                        _int_to_chunklist(ShiftBits(frac_len), _global_chunk_size),
                                        negative, TRUE, TRUE)
                               ELSE MegaNumber(mant_limb, <<0>>, negative, FALSE, FALSE)
                    IN _to_subclass(_normalize(obj))

\* int(s, 2) on a string of binary digits
RECURSIVE BinToInt(_, _, _)
BinToInt(s, i, val) ==
    IF i > Len(s) THEN val ELSE BinToInt(s, i + 1, 2 * val + DigitVal(s[i]))

\* MegaNumber.from_binary_string on an unsigned binary string
from_binary_string(bin_str) ==
    LET s == StrStrip(bin_str)
    IN IF s = <<>> THEN MegaNumber(<<0>>, <<0>>, FALSE, FALSE, FALSE)
       ELSE _normalize(MegaNumber(_int_to_chunklist(BinToInt(s, 1, 0), _global_chunk_size),
                                  <<0>>, FALSE, FALSE, FALSE))

(***************************************************************************)
(* MegaNumber arithmetic (the methods of the base class).                  *)
(* _check_precision_limit is a no-op: _max_precision_bits stays None.      *)
(***************************************************************************)
exp_as_int(mn) ==
    IF mn.exponent_negative THEN -_chunklist_to_int(mn.exponent)
    ELSE _chunklist_to_int(mn.exponent)

\* self._int_to_chunklist(abs(v), csize) if abs(v) else [0]
ExpChunk(v) == IF Abs(v) # 0 THEN _int_to_chunklist(Abs(v), _global_chunk_size) ELSE <<0>>

\* MegaNumber._add_float; unequal exponents call self._shift_right, which
\* MegaNumber does not define
_add_float(self, other) ==
    LET expA == exp_as_int(self)
        expB == exp_as_int(other)
    IN IF expA # expB THEN Err("AttributeError")
       ELSE LET mantA == self.mantissa
                mantB == other.mantissa
                c == _compare_abs(mantA, mantB)
            IN IF self.negative = other.negative
               THEN _normalize(MegaNumber(_add_chunklists(mantA, mantB), ExpChunk(expA),
                                          self.negative, TRUE, expA < 0))
               ELSE IF c = 0 THEN MegaNumber(None, None, FALSE, TRUE, FALSE)
               ELSE IF c > 0
               THEN _normalize(MegaNumber(_sub_chunklists(mantA, mantB), ExpChunk(expA),
                                          self.negative, TRUE, expA < 0))
               ELSE _normalize(MegaNumber(_sub_chunklists(mantB, mantA), ExpChunk(expA),
                                          other.negative, TRUE, expA < 0))

MegaNumber_add(self, other) ==
    IF self.is_float \/ other.is_float THEN _add_float(self, other)
    ELSE IF self.negative = other.negative
    THEN MegaNumber(_add_chunklists(self.mantissa, other.mantissa), None, self.negative,
                    FALSE, FALSE)
    ELSE LET c == _compare_abs(self.mantissa, other.mantissa)
         IN IF c = 0 THEN MegaNumber(None, None, FALSE, FALSE, FALSE)
            ELSE IF c > 0
            THEN MegaNumber(_sub_chunklists(self.mantissa, other.mantissa), None,
                            self.negative, FALSE, FALSE)
            ELSE MegaNumber(_sub_chunklists(other.mantissa, self.mantissa), None,
                            other.negative, FALSE, FALSE)

MegaNumber_sub(self, other) ==
    MegaNumber_add(self, MegaNumber(other.mantissa, other.exponent, ~other.negative,
                                    other.is_float, other.exponent_negative))

MegaNumber_mul(self, other) ==
    LET out_limb == _mul_chunklists(self.mantissa, other.mantissa, _global_chunk_size, _base)
        sign == self.negative # other.negative
        sum_exp == exp_as_int(self) + exp_as_int(other)
    IN IF ~(self.is_float \/ other.is_float)
       THEN _normalize(MegaNumber(out_limb, <<0>>, sign, FALSE, FALSE))
       ELSE _normalize(MegaNumber(out_limb, ExpChunk(sum_exp), sign, TRUE, sum_exp < 0))

MegaNumber_div(self, other) ==
    LET sign == self.negative # other.negative
        c == _compare_abs(self.mantissa, other.mantissa)
        new_exponent_val == exp_as_int(self) - exp_as_int(other)
    IN IF ~(self.is_float \/ other.is_float)
       THEN IF IsZeroLimbs(other.mantissa) THEN Err("ZeroDivisionError")
            ELSE IF c < 0 THEN MegaNumber(<<0>>, <<0>>, FALSE, FALSE, FALSE)
            ELSE IF c = 0 THEN MegaNumber(<<1>>, <<0>>, sign, FALSE, FALSE)
            ELSE _normalize(MegaNumber(_div_chunk(self.mantissa, other.mantissa).Q, <<0>>,
                                       sign, FALSE, FALSE))
       ELSE IF IsZeroLimbs(other.mantissa) THEN Err("ZeroDivisionError")
       ELSE LET q_limb == IF c < 0 THEN <<0>>
                          ELSE IF c = 0 THEN <<1>>
                          ELSE _div_chunk(self.mantissa, other.mantissa).Q
            IN _normalize(MegaNumber(q_limb, ExpChunk(new_exponent_val), sign, TRUE,
                                     new_exponent_val < 0))

_shr1_inplace(xx) ==
    LET limbs == StripZeros(Div2Loop(xx.mantissa, Len(xx.mantissa), 0, <<>>))
    IN IF IsZeroLimbs(limbs) THEN [xx EXCEPT !.mantissa = limbs, !.negative = FALSE]
       ELSE [xx EXCEPT !.mantissa = limbs]

\* while not (len(e.mantissa)==1 and e.mantissa[0]==0) of MegaNumber.pow
RECURSIVE PowLoop(_, _, _)
PowLoop(result, base_copy, e) ==
    IF IsZeroLimbs(e.mantissa) THEN result
    ELSE PowLoop(IF e.mantissa[1] % 2 = 1 THEN MegaNumber_mul(result, base_copy) ELSE result,
                 MegaNumber_mul(base_copy, base_copy),
                 _shr1_inplace(e))

\* MegaNumber.pow without the "if exponent.negative: raise" test
MegaNumber_pow_unchecked(self, exponent) ==
    IF IsZeroLimbs(exponent.mantissa) THEN from_int(1)
    ELSE PowLoop(from_int(1), copy(self), copy(exponent))

MegaNumber_pow(self, exponent) ==
    IF exponent.negative THEN Err("NotImplementedError")
    ELSE IF IsZeroLimbs(exponent.mantissa) THEN from_int(1)
    ELSE PowLoop(from_int(1), copy(self), copy(exponent))

\* while True of the integer square root (MegaNumber.sqrt and _float_sqrt)
RECURSIVE SqrtLoop(_, _, _)
SqrtLoop(A, low, high) ==
    LET mid == _div2(_add_chunklists(low, high))
        c_cmp == _compare_abs(_mul_chunklists(mid, mid, _global_chunk_size, _base), A)
    IN IF _compare_abs(mid, low) = 0 \/ _compare_abs(mid, high) = 0 THEN mid
       ELSE IF c_cmp = 0 THEN mid
       ELSE IF c_cmp < 0 THEN SqrtLoop(A, mid, high)
       ELSE SqrtLoop(A, low, mid)

\* doubling loop of _float_sqrt (odd positive exponent)
RECURSIVE DoubleLoop(_, _, _)
DoubleLoop(work, i, carry) ==
    IF i > Len(work) THEN (IF carry # 0 THEN Append(work, carry) ELSE work)
    ELSE LET doubled == work[i] * 2 + carry
         IN DoubleLoop([work EXCEPT ![i] = doubled % _base], i + 1,
                       doubled \div (2 ^ _global_chunk_size))

_float_sqrt(self) ==
    LET total_exp == exp_as_int(self)
        remainder == total_exp % 2
        work_mantissa == IF remainder = 0 THEN self.mantissa
                         ELSE IF total_exp > 0 THEN DoubleLoop(self.mantissa, 1, 0)
                         ELSE StripZeros(Div2Loop(self.mantissa, Len(self.mantissa), 0, <<>>))
        even_exp == IF remainder = 0 THEN total_exp
                    ELSE IF total_exp > 0 THEN total_exp - 1 ELSE total_exp + 1
        half_exp == even_exp \div 2
        sqrt_mantissa == SqrtLoop(work_mantissa, <<0>>, work_mantissa)
    IN _normalize(MegaNumber(sqrt_mantissa, ExpChunk(half_exp), FALSE, TRUE, half_exp < 0))

MegaNumber_sqrt(self) ==
    IF self.negative THEN Err("ValueError")
    ELSE IF IsZeroLimbs(self.mantissa) THEN MegaNumber(<<0>>, <<0>>, FALSE, self.is_float, FALSE)
    ELSE IF ~self.is_float
    THEN MegaNumber(SqrtLoop(self.mantissa, <<0>>, self.mantissa), <<0>>, FALSE, FALSE, FALSE)
    ELSE _float_sqrt(self)

(***************************************************************************)
(* MegaInteger and MegaFloat override the arithmetic of MegaNumber.  Each  *)
(* builds its result without an exponent argument, so the constructor      *)
(* reads the undefined attribute _chunk_code.                              *)
(***************************************************************************)
\* while exp_val > 0 of MegaInteger.pow and MegaFloat.pow
RECURSIVE HostPowLoop(_, _, _)
HostPowLoop(result, bs, exp_val) ==
    IF exp_val > 0
    THEN HostPowLoop(IF exp_val % 2 = 1
                     THEN _mul_chunklists(result, bs, _global_chunk_size, _base)
                     ELSE result,
                     _mul_chunklists(bs, bs, _global_chunk_size, _base),
                     exp_val \div 2)
    ELSE result

\* int(x ** 0.5)
HostSqrt(v) == CHOOSE y \in 0..v : y * y <= v /\ (y + 1) * (y + 1) > v

MegaFloat_mul(self, other) ==
    IF other.cls \notin {"MegaFloat", "MegaInteger"} THEN Err("TypeError")
    ELSE MegaFloat(_mul_chunklists(self.mantissa, other.mantissa, _global_chunk_size, _base),
                   None, self.negative # other.negative, TRUE, FALSE)

MegaInteger_add(self, other) ==
    IF self.is_float \/ other.is_float THEN Err("NotImplementedError")
    ELSE MegaInteger(_add_chunklists(self.mantissa, other.mantissa), None, self.negative,
                     FALSE, FALSE)

MegaInteger_sub(self, other) ==
    IF self.is_float \/ other.is_float THEN Err("NotImplementedError")
    ELSE MegaInteger(_sub_chunklists(self.mantissa, other.mantissa), None, self.negative,
                     FALSE, FALSE)

MegaInteger_mul(self, other) ==
    IF other.cls = "MegaFloat" THEN MegaFloat_mul(other, self)
    ELSE MegaInteger(_mul_chunklists(self.mantissa, other.mantissa, _global_chunk_size, _base),
                     None, self.negative # other.negative, FALSE, FALSE)

MegaInteger_div(self, other) ==
    IF self.is_float \/ other.is_float THEN Err("NotImplementedError")
    ELSE LET qr == _div_chunk(self.mantissa, other.mantissa)
         IN IF qr.err # "" THEN Err(qr.err)
            ELSE MegaInteger(qr.Q, None, self.negative, FALSE, FALSE)

MegaInteger_pow(self, exponent) ==
    IF self.is_float \/ exponent.is_float THEN Err("NotImplementedError")
    ELSE MegaInteger(HostPowLoop(_int_to_chunklist(1, _global_chunk_size), self.mantissa,
                                 _chunklist_to_int(exponent.mantissa)),
                     None, self.negative, FALSE, FALSE)

MegaInteger_sqrt(self) ==
    IF self.is_float THEN Err("NotImplementedError")
    ELSE MegaInteger(_int_to_chunklist(HostSqrt(_chunklist_to_int(self.mantissa)),
                                       _global_chunk_size),
                     None, self.negative, FALSE, FALSE)

\* MegaFloat.add, sub, div and pow build array.array(self._chunk_code, ...)
\* right after their mode check
MegaFloat_add(self, other) ==
    IF ~self.is_float \/ ~other.is_float THEN Err("ValueError") ELSE Err("AttributeError")

MegaFloat_sub(self, other) ==
    IF ~self.is_float \/ ~other.is_float THEN Err("NotImplementedError")
    ELSE Err("AttributeError")

MegaFloat_div(self, other) ==
    IF ~self.is_float \/ ~other.is_float THEN Err("NotImplementedError")
    ELSE Err("AttributeError")

MegaFloat_pow(self, exponent) ==
    IF ~self.is_float \/ ~exponent.is_float THEN Err("NotImplementedError")
    ELSE Err("AttributeError")

MegaFloat_sqrt(self) ==
    IF ~self.is_float THEN Err("NotImplementedError")
    ELSE MegaFloat(_int_to_chunklist(HostSqrt(_chunklist_to_int(self.mantissa)),
                                     _global_chunk_size),
                   None, self.negative, TRUE, FALSE)

(***************************************************************************)
(* Method dispatch on the class of the receiver.                           *)
(***************************************************************************)
add(self, other) ==
    IF self.cls = "MegaInteger" THEN MegaInteger_add(self, other)
    ELSE IF self.cls = "MegaFloat" THEN MegaFloat_add(self, other)
    ELSE MegaNumber_add(self, other)

sub(self, other) ==
    IF self.cls = "MegaInteger" THEN MegaInteger_sub(self, other)
    ELSE IF self.cls = "MegaFloat" THEN MegaFloat_sub(self, other)
    ELSE MegaNumber_sub(self, other)

mul(self, other) ==
    IF self.cls = "MegaInteger" THEN MegaInteger_mul(self, other)
    ELSE IF self.cls = "MegaFloat" THEN MegaFloat_mul(self, other)
    ELSE MegaNumber_mul(self, other)

div(self, other) ==
    IF self.cls = "MegaInteger" THEN MegaInteger_div(self, other)
    ELSE IF self.cls = "MegaFloat" THEN MegaFloat_div(self, other)
    ELSE MegaNumber_div(self, other)

pow(self, exponent) ==
    IF self.cls = "MegaInteger" THEN MegaInteger_pow(self, exponent)
    ELSE IF self.cls = "MegaFloat" THEN MegaFloat_pow(self, exponent)
    ELSE MegaNumber_pow(self, exponent)

sqrt(self) ==
    IF self.cls = "MegaInteger" THEN MegaInteger_sqrt(self)
    ELSE IF self.cls = "MegaFloat" THEN MegaFloat_sqrt(self)
    ELSE MegaNumber_sqrt(self)

(***************************************************************************)
(* fraction_core: the hpc_* wrappers.  A pair result is a record           *)
(* [q, r, err]; err names the exception raised, "" when none.              *)
(***************************************************************************)
hpc_is_zero(xx) == Len(xx.mantissa) = 1 /\ xx.mantissa[1] = 0

hpc_add(p, q) ==
    IF p.is_float \/ q.is_float THEN Err("NotImplementedError") ELSE add(p, q)

hpc_sub(p, q) ==
    IF p.is_float \/ q.is_float THEN Err("NotImplementedError") ELSE sub(p, q)

hpc_mul(p, q) ==
    IF p.is_float \/ q.is_float THEN Err("NotImplementedError") ELSE mul(p, q)

hpc_abs(xx) == [copy(xx) EXCEPT !.negative = FALSE]

PairErr(kind) == [r |-> Err(kind), err |-> kind, q |-> Err(kind)]

hpc_divmod(a0, b0) ==
    Bind2(a0, b0, LAMBDA p, q :
        IF p.is_float \/ q.is_float THEN PairErr("NotImplementedError")
        ELSE IF hpc_is_zero(q) THEN PairErr("ZeroDivisionError")
        ELSE Bind(div(p, q), LAMBDA quotient :
            IF IsErr(quotient) THEN PairErr(quotient.err)
            ELSE Bind(mul(quotient, q), LAMBDA prod :
                IF IsErr(prod) THEN PairErr(prod.err)
                ELSE Bind(sub(p, prod), LAMBDA remainder :
                    IF IsErr(remainder) THEN PairErr(remainder.err)
                    ELSE [r |-> remainder, err |-> "", q |-> quotient]))))

\* while not hpc_is_zero(B) of hpc_gcd
RECURSIVE GcdLoop(_, _)
GcdLoop(A, B) ==
    IF hpc_is_zero(B) THEN A
    ELSE Bind(hpc_divmod(A, B), LAMBDA qr :
             IF qr.err # "" THEN Err(qr.err) ELSE GcdLoop(B, qr.r))

hpc_gcd(p, q) == Bind2(hpc_abs(p), hpc_abs(q), LAMBDA A, B : GcdLoop(A, B))

parse_decimal_string_to_hpc(s) ==
    IF s = <<>> THEN from_int(0) ELSE from_decimal_string(s)

(***************************************************************************)
(* MegaFraction.  A fraction is a record [num, den, err].  The constructor *)
(* writes to the .negative field of the objects it is given; same says the *)
(* caller passed one object as both arguments.                             *)
(***************************************************************************)
Frac(num, den) == [err |-> "", num |-> num, den |-> den]

FracErr(kind) == [err |-> kind, num |-> Err(kind), den |-> Err(kind)]

\* the two argument objects after "if denominator.negative: ..." has run
InitArgs(numerator, denominator, same) ==
    IF ~denominator.negative THEN <<numerator, denominator>>
    ELSE IF same
    THEN <<[denominator EXCEPT !.negative = TRUE], [denominator EXCEPT !.negative = TRUE]>>
    ELSE <<[numerator EXCEPT !.negative = ~numerator.negative],
           [denominator EXCEPT !.negative = FALSE]>>

MegaFractionInit(num0, den0, same) ==
    Bind2(num0, den0, LAMBDA numerator, denominator :
        IF hpc_is_zero(denominator) THEN FracErr("ZeroDivisionError")
        ELSE Bind(hpc_gcd(numerator, denominator), LAMBDA g :
            IF IsErr(g) THEN FracErr(g.err)
            ELSE Bind(InitArgs(numerator, denominator, same), LAMBDA args :
                Bind2(hpc_divmod(args[1], g), hpc_divmod(args[2], g), LAMBDA n, d :
                    IF n.err # "" THEN FracErr(n.err)
                    ELSE IF d.err # "" THEN FracErr(d.err)
                    ELSE Frac(n.q, d.q)))))

MegaFraction(numerator, denominator) == MegaFractionInit(numerator, denominator, FALSE)

\* for _ in range(frac_len): denom = denom.mul(ten)
RECURSIVE DenomLoop(_, _)
DenomLoop(denom, k) == IF k = 0 THEN denom ELSE DenomLoop(mul(denom, from_int(10)), k - 1)

MegaFraction_from_decimal_string(dec_str) ==
    LET s0 == StrStrip(dec_str)
    IN IF s0 = <<>> THEN MegaFraction(from_int(0), from_int(1))
       ELSE LET negative == s0[1] = "-"
                s1 == IF negative THEN StrStrip(Tail(s0)) ELSE s0
                point_pos == FindPoint(s1)
                frac_len == IF point_pos > 0 THEN Len(s1) - point_pos ELSE 0
                s2 == SelectSeq(s1, NotPoint)
                parsed == parse_decimal_string_to_hpc(s2)
                numerator == IF negative THEN [parsed EXCEPT !.negative = TRUE] ELSE parsed
            IN IF IsErr(parsed) THEN FracErr(parsed.err)
               ELSE IF frac_len = 0 THEN MegaFraction(numerator, from_int(1))
               ELSE MegaFraction(numerator, DenomLoop(from_int(1), frac_len))

MegaFraction_copy(self) == MegaFraction(copy(self.num), copy(self.den))

\* MegaFraction(new_num, new_den) when the hpc_* calls that built them returned
FracOf(new_num, new_den) ==
    IF IsErr(new_num) THEN FracErr(new_num.err)
    ELSE IF IsErr(new_den) THEN FracErr(new_den.err)
    ELSE MegaFraction(new_num, new_den)

\* hpc_add / hpc_sub of two products, the first failure propagating
Combine(ad, bc, sum) ==
    IF IsErr(ad) THEN ad ELSE IF IsErr(bc) THEN bc ELSE sum

MegaFraction_add(self, other) ==
    LET ad == hpc_mul(self.num, other.den)
        bc == hpc_mul(other.num, self.den)
    IN FracOf(Combine(ad, bc, hpc_add(ad, bc)), hpc_mul(self.den, other.den))

MegaFraction_sub(self, other) ==
    LET ad == hpc_mul(self.num, other.den)
        bc == hpc_mul(other.num, self.den)
    IN FracOf(Combine(ad, bc, hpc_sub(ad, bc)), hpc_mul(self.den, other.den))

MegaFraction_mul(self, other) ==
    FracOf(hpc_mul(self.num, other.num), hpc_mul(self.den, other.den))

MegaFraction_div(self, other) ==
    IF hpc_is_zero(other.num) THEN FracErr("ZeroDivisionError")
    ELSE FracOf(hpc_mul(self.num, other.den), hpc_mul(self.den, other.num))

(***************************************************************************)
(* Decimal text.  to_decimal_string is called with max_digits left out.    *)
(***************************************************************************)
\* str(v) of a host integer
RECURSIVE NatToStr(_)
NatToStr(v) ==
    IF v < 10 THEN <<DigitChars[v + 1]>>
    ELSE NatToStr(v \div 10) \o <<DigitChars[(v % 10) + 1]>>

IntToStr(v) == IF v < 0 THEN <<"-">> \o NatToStr(-v) ELSE NatToStr(v)

\* for i in reversed(range(len(A))) of _divmod_small
RECURSIVE DivmodSmallLoop(_, _, _, _, _)
DivmodSmallLoop(A, small_val, i, remainder, out) ==
    IF i < 1 THEN <<out, remainder>>
    ELSE Bind(remainder * (2 ^ _global_chunk_size) + A[i], LAMBDA cur :
             DivmodSmallLoop(A, small_val, i - 1, cur % small_val,
                             [out EXCEPT ![i] = (cur \div small_val) % _base]))

\* the pair (out, remainder)
_divmod_small(A, small_val) ==
    Bind(DivmodSmallLoop(A, small_val, Len(A), 0, Zeros(Len(A))), LAMBDA qr :
        <<StripZeros(qr[1]), qr[2]>>)

\* while not (len(temp) == 1 and temp[0] == 0) of _chunk_to_dec_str; digits is
\* kept in printing order
RECURSIVE ChunkToDecLoop(_, _)
ChunkToDecLoop(temp, digits) ==
    IF IsZeroLimbs(temp) THEN digits
    ELSE Bind(_divmod_small(temp, 10), LAMBDA qr :
             ChunkToDecLoop(qr[1], NatToStr(qr[2]) \o digits))

_chunk_to_dec_str(limbs) ==
    IF IsZeroLimbs(limbs) THEN <<"0">> ELSE ChunkToDecLoop(limbs, <<>>)

\* _chunklist_to_small_int computes what _chunklist_to_int computes
MegaNumber_to_decimal_string(self) ==
    IF IsZeroLimbs(self.mantissa) THEN <<"0">>
    ELSE LET sign_str == IF self.negative THEN <<"-">> ELSE <<>>
             is_exp_nonzero == Len(self.exponent) > 1 \/ self.exponent[1] # 0
             e_val == IF self.exponent_negative THEN -_chunklist_to_int(self.exponent)
                      ELSE _chunklist_to_int(self.exponent)
         IN IF ~is_exp_nonzero /\ ~self.exponent_negative
            THEN sign_str \o _chunk_to_dec_str(self.mantissa)
            ELSE sign_str \o _chunk_to_dec_str(self.mantissa)
                          \o <<" ", "*", " ", "2", "^">> \o IntToStr(e_val)

\* while result.endswith("0")
RECURSIVE StripTrailingZeros(_)
StripTrailingZeros(result) ==
    IF result # <<>> /\ result[Len(result)] = "0"
    THEN StripTrailingZeros(SubSeq(result, 1, Len(result) - 1))
    ELSE result

\* "0" * n
ZeroChars(n) == [i \in 1..n |-> "0"]

MegaFloat_to_decimal_string(self) ==
    IF IsZeroLimbs(self.mantissa) THEN <<"0", ".", "0">>
    ELSE LET sign_str == IF self.negative THEN <<"-">> ELSE <<>>
             digits == NatToStr(_chunklist_to_int(self.mantissa))
             num_str == IF Len(digits) <= 3 THEN ZeroChars(4 - Len(digits)) \o digits
                        ELSE digits
             dec_pos == Len(num_str) - 3
             result == StripTrailingZeros(SubSeq(num_str, 1, dec_pos) \o <<".">>
                                          \o SubSeq(num_str, dec_pos + 1, Len(num_str)))
         IN IF ~self.is_float THEN sign_str \o digits
            ELSE IF result[Len(result)] = "." THEN sign_str \o result \o <<"0">>
            ELSE sign_str \o result

to_decimal_string(self) ==
    IF self.cls = "MegaFloat" THEN MegaFloat_to_decimal_string(self)
    ELSE MegaNumber_to_decimal_string(self)

(***************************************************************************)
(* MegaFraction.to_decimal_string_unbounded.  Its digit loop may run       *)
(* forever, so it is taken one iteration at a time; the record of its      *)
(* local variables is what one iteration hands to the next.                *)
(***************************************************************************)
Text(s) == [err |-> "", text |-> s]

TextErr(kind) == [err |-> kind, text |-> <<>>]

LocalsErr(kind) ==
    [err |-> kind, sign_str |-> <<>>, int_str |-> <<>>, r_abs |-> Err(kind),
     frac_digits |-> <<>>]

hpc_to_decimal_string(xx) ==
    IF xx.is_float THEN TextErr("NotImplementedError") ELSE Text(to_decimal_string(xx))

\* the statements before "while True": the locals on reaching the loop
UnboundedLocals(self) ==
    Bind(hpc_divmod(self.num, self.den), LAMBDA qr :
        IF qr.err # "" THEN LocalsErr(qr.err)
        ELSE Bind(hpc_to_decimal_string([qr.q EXCEPT !.negative = FALSE]), LAMBDA t :
            IF t.err # "" THEN LocalsErr(t.err)
            ELSE [err |-> "", sign_str |-> IF qr.q.negative THEN <<"-">> ELSE <<>>,
                  int_str |-> t.text, r_abs |-> [copy(qr.r) EXCEPT !.negative = FALSE],
                  frac_digits |-> <<>>]))

\* one iteration of "while True" without "r_abs = hpc_mul(r_abs, ten)"
DigitIteration_no_mul(self, loc) ==
    Bind(hpc_divmod(loc.r_abs, self.den), LAMBDA qr :
        IF qr.err # "" THEN LocalsErr(qr.err)
        ELSE [loc EXCEPT !.r_abs = qr.r,
                         !.frac_digits = @ \o NatToStr(qr.q.mantissa[1])])

\* one iteration of "while True", up to the test that leaves the loop
DigitIteration(self, loc) ==
    Bind(hpc_mul(loc.r_abs, from_int(10)), LAMBDA m :
        IF IsErr(m) THEN LocalsErr(m.err)
        ELSE Bind(hpc_divmod(m, self.den), LAMBDA qr :
            IF qr.err # "" THEN LocalsErr(qr.err)
            ELSE [loc EXCEPT !.r_abs = qr.r,
                             !.frac_digits = @ \o NatToStr(qr.q.mantissa[1])]))

\* return f"{sign_str}{int_str}.{frac_str}"
UnboundedText(loc) == loc.sign_str \o loc.int_str \o <<".">> \o loc.frac_digits

(***************************************************************************)
(* A caller of the BigNumber API.  x is the value the caller holds; every  *)
(* step calls one public operation on x and a freshly built operand, in    *)
(* either order, and keeps the returned value as the new x.  a and b are   *)
(* the receiver and the argument of the last call, res what it returned.   *)
(***************************************************************************)
NoNum ==
    [err |-> "", cls |-> "None", mantissa |-> <<0>>, exponent |-> <<0>>,
     negative |-> FALSE, is_float |-> FALSE, exponent_negative |-> FALSE]

IntInputs == (-MaxInt..MaxInt) \cup {_mask, -_mask, _base, -_base}

Strings(chars, n) == UNION {[1..k -> chars] : k \in 0..n}

DecInputs == Strings({"-", ".", "0", "5"}, MaxStrLen)

BinInputs == Strings({"0", "1"}, MaxStrLen)

Operands ==
    {r \in {from_int(v) : v \in IntInputs}
           \cup {from_decimal_string(s) : s \in DecInputs}
           \cup {from_binary_string(s) : s \in BinInputs} : ~IsErr(r)}

\* the caller keeps a returned value; a failed call leaves x as it was
Keep(r, old) == IF ~IsErr(r) /\ Len(r.mantissa) <= MaxLen THEN r ELSE old

Init ==
    /\ op = "MegaNumber"
    /\ x = MegaNumber(None, None, FALSE, FALSE, FALSE)
    /\ res = x
    /\ a = NoNum
    /\ b = NoNum
    /\ steps = 0

Construct(name, r) ==
    /\ steps < MaxSteps
    /\ op' = name
    /\ res' = r
    /\ x' = Keep(r, x)
    /\ a' = NoNum
    /\ b' = NoNum
    /\ steps' = steps + 1

\* MegaNumber(mantissa, exponent, negative, is_float, exponent_negative) on limb
\* lists the caller wrote, canonical or not
CtorMantissas == {<<0>>, <<0, 0>>, <<3>>, <<3, 0>>, <<_mask, 1>>}

CtorExponents == {<<0>>, <<2, 0>>}

New ==
    \E m \in CtorMantissas, e \in CtorExponents, neg \in BOOLEAN, isf \in BOOLEAN,
       eneg \in BOOLEAN :
        Construct("MegaNumber", MegaNumber(m, e, neg, isf, eneg))

FromInt == \E v \in IntInputs : Construct("from_int", from_int(v))

FromDecimalString == \E s \in DecInputs : Construct("from_decimal_string", from_decimal_string(s))

FromBinaryString == \E s \in BinInputs : Construct("from_binary_string", from_binary_string(s))

Call(name, self, other, r) ==
    /\ steps < MaxSteps
    /\ op' = name
    /\ a' = self
    /\ b' = other
    /\ res' = r
    /\ x' = Keep(r, x)
    /\ steps' = steps + 1

Add ==
    \E o \in Operands \cup {x} :
        \/ Call("add", x, o, add(x, o))
        \/ Call("add", o, x, add(o, x))

Sub ==
    \E o \in Operands \cup {x} :
        \/ Call("sub", x, o, sub(x, o))
        \/ Call("sub", o, x, sub(o, x))

Mul ==
    \E o \in Operands \cup {x} :
        \/ Call("mul", x, o, mul(x, o))
        \/ Call("mul", o, x, mul(o, x))

Div ==
    \E o \in Operands \cup {x} :
        \/ Call("div", x, o, div(x, o))
        \/ Call("div", o, x, div(o, x))

\* the caller bounds the exponent: pow with a huge exponent does not end
SmallExp(e) == Len(e.mantissa) = 1 /\ e.mantissa[1] <= MaxPowExp

Pow ==
    \E o \in Operands \cup {x} :
        \/ SmallExp(o) /\ Call("pow", x, o, pow(x, o))
        \/ SmallExp(x) /\ Call("pow", o, x, pow(o, x))

Sqrt == Call("sqrt", x, NoNum, sqrt(x))

Copy == Call("copy", x, NoNum, copy(x))

Next ==
    \/ New \/ FromInt \/ FromDecimalString \/ FromBinaryString
    \/ Add \/ Sub \/ Mul \/ Div \/ Pow \/ Sqrt \/ Copy

Spec == Init /\ [][Next]_vars

Returned == ~IsErr(res)

C2_UniqueZero ==
    (Returned /\ IsZeroLimbs(res.mantissa)) =>
        (~res.negative /\ res.exponent = <<0>> /\ ~res.exponent_negative)

\* a zero product of a zero and a negative float with a negative exponent
C2_Witness ==
    /\ op = "mul" /\ Returned /\ IsZeroLimbs(res.mantissa)
    /\ b.negative /\ b.is_float /\ b.exponent_negative /\ b.exponent # <<0>>

\* an integer-mode BigNumber of either integer class
IntegerMode(r) == r.cls \in {"MegaNumber", "MegaInteger"} /\ ~r.is_float

\* decode: the limbs -> native integer reference
decode(limbs) == _chunklist_to_int(limbs)

\* the signed integer an integer-mode BigNumber stands for
Value(r) == IF r.negative THEN -decode(r.mantissa) ELSE decode(r.mantissa)

\* C5: integer-mode addition is sign-aware: for integer BigNumbers a and b of
\* any signs, obtained from from_int or from_decimal_string, a.add(b) returns
\* the mathematical sum a + b.
C5_SignAwareAdd ==
    (op = "add" /\ IntegerMode(a) /\ IntegerMode(b)) =>
        (Returned /\ Value(res) = Value(a) + Value(b))

\* what the code does keep: add on a receiver of class MegaNumber is the sum
C5_MegaNumberAdd ==
    (op = "add" /\ a.cls = "MegaNumber" /\ IntegerMode(a) /\ IntegerMode(b)) =>
        (Returned /\ Value(res) = Value(a) + Value(b))

\* C6: for integer BigNumbers a and b, a.sub(b) returns the mathematical
\* difference a - b, also when |a| < |b|.
C6_SubIsDifference ==
    (op = "sub" /\ IntegerMode(a) /\ IntegerMode(b)) =>
        (Returned /\ Value(res) = Value(a) - Value(b))

C6_MegaNumberSub ==
    (op = "sub" /\ a.cls = "MegaNumber" /\ IntegerMode(a) /\ IntegerMode(b)) =>
        (Returned /\ Value(res) = Value(a) - Value(b))

\* C9: for integer BigNumbers a and b with b # 0, a.div(b) has magnitude
\* floor(|a| / |b|) and the XOR of the operand signs as its sign (non-negative
\* when the quotient is zero).
C9_DivFloorXorSign ==
    (op = "div" /\ IntegerMode(a) /\ IntegerMode(b) /\ ~IsZeroLimbs(b.mantissa)) =>
        /\ Returned
        /\ decode(res.mantissa) = decode(a.mantissa) \div decode(b.mantissa)
        /\ res.negative = (~IsZeroLimbs(res.mantissa) /\ a.negative # b.negative)

C9_MegaNumberDiv ==
    (op = "div" /\ a.cls = "MegaNumber" /\ IntegerMode(a) /\ IntegerMode(b)
                /\ ~IsZeroLimbs(b.mantissa)) =>
        /\ Returned
        /\ decode(res.mantissa) = decode(a.mantissa) \div decode(b.mantissa)
        /\ res.negative = (~IsZeroLimbs(res.mantissa) /\ a.negative # b.negative)

\* C10: BigNumber division by a zero divisor always fails with a divide-by-zero
\* error, in integer mode and in float mode, for every dividend.
C10_DivByZeroFails ==
    (op = "div" /\ IsZeroLimbs(b.mantissa)) => (IsErr(res) /\ res.err = "ZeroDivisionError")

\* division by zero never returns a value, whatever error it fails with
C10_DivByZeroNoValue == (op = "div" /\ IsZeroLimbs(b.mantissa)) => IsErr(res)

\* C11: for every non-negative integer A, A = 0 and A = 1 included, s = sqrt(A)
\* is the floor of the real square root, s * s <= A < (s + 1) * (s + 1), and the
\* binary search that computes it ends.
C11_SqrtIsFloor ==
    (op = "sqrt" /\ IntegerMode(a) /\ ~a.negative) =>
        /\ Returned
        /\ decode(res.mantissa) * decode(res.mantissa) <= decode(a.mantissa)
        /\ decode(a.mantissa) < (decode(res.mantissa) + 1) * (decode(res.mantissa) + 1)

\* what the code does keep: on a receiver of class MegaNumber other than 1 the
\* binary search ends on the floor of the square root
C11_MegaNumberSqrt ==
    (op = "sqrt" /\ a.cls = "MegaNumber" /\ IntegerMode(a) /\ ~a.negative
                 /\ a.mantissa # <<1>>) =>
        /\ Returned
        /\ decode(res.mantissa) * decode(res.mantissa) <= decode(a.mantissa)
        /\ decode(a.mantissa) < (decode(res.mantissa) + 1) * (decode(res.mantissa) + 1)

\* the square root of a two-limb MegaNumber that is no perfect square
C11_TwoLimbSqrt ==
    /\ op = "sqrt" /\ Returned /\ a.cls = "MegaNumber" /\ ~a.is_float
    /\ Len(a.mantissa) = 2
    /\ decode(res.mantissa) * decode(res.mantissa) < decode(a.mantissa)

\* column k of the product: the sum of A[i] * B[k + 1 - i] over i in lo..hi
RECURSIVE ColumnSum(_, _, _, _, _)
ColumnSum(A, B, k, lo, hi) ==
    IF lo > hi THEN 0
    ELSE IF lo = hi
    THEN (IF lo <= Len(A) /\ k + 1 - lo >= 1 /\ k + 1 - lo <= Len(B)
          THEN A[lo] * B[k + 1 - lo] ELSE 0)
    ELSE ColumnSum(A, B, k, lo, (lo + hi) \div 2) + ColumnSum(A, B, k, (lo + hi) \div 2 + 1, hi)

\* columns lo..hi written out in base _base, the carry moving upward
RECURSIVE ColumnCarry(_, _, _, _, _)
ColumnCarry(st, A, B, lo, hi) ==
    IF lo > hi THEN st
    ELSE IF lo = hi
    THEN LET total == ColumnSum(A, B, lo, 1, lo) + st.carry
         IN [out |-> Append(st.out, total % _base), carry |-> total \div _base]
    ELSE LET left == ColumnCarry(st, A, B, lo, (lo + hi) \div 2)
         IN IF Evaluated(left.out)
            THEN ColumnCarry(left, A, B, (lo + hi) \div 2 + 1, hi)
            ELSE left

\* the canonical limb sequence of decode(A) * decode(B), by positional arithmetic
LimbProduct(A, B) ==
    StripZeros(ColumnCarry([out |-> <<>>, carry |-> 0], A, B, 1, Len(A) + Len(B)).out)

\* m^e on limb sequences by e column multiplications
RECURSIVE PowerLimbs(_, _)
PowerLimbs(m, e) == IF e = 0 THEN <<1>> ELSE LimbProduct(PowerLimbs(m, e - 1), m)

\* C12: for every integer base b of any sign and every integer exponent e >= 0,
\* pow(b, e) returns exactly b^e with the mathematically correct sign; an
\* exponent of 0 returns 1 for every base.
C12_PowIsPower ==
    (op = "pow" /\ IntegerMode(a) /\ IntegerMode(b) /\ ~b.negative) =>
        /\ Returned
        /\ res.mantissa = PowerLimbs(a.mantissa, decode(b.mantissa))
        /\ res.negative = (a.negative /\ decode(b.mantissa) % 2 = 1)

\* what the code does keep: pow on a receiver of class MegaNumber is the power
C12_MegaNumberPow ==
    (op = "pow" /\ a.cls = "MegaNumber" /\ IntegerMode(a) /\ IntegerMode(b)
                /\ ~b.negative) =>
        /\ Returned
        /\ res.mantissa = PowerLimbs(a.mantissa, decode(b.mantissa))
        /\ res.negative = (a.negative /\ decode(b.mantissa) % 2 = 1)

\* a negative MegaNumber base raised to an odd exponent above 1
C12_NegativeOddPow ==
    /\ op = "pow" /\ Returned /\ a.cls = "MegaNumber" /\ IntegerMode(a) /\ IntegerMode(b)
    /\ a.negative /\ b.mantissa = <<3>> /\ ~b.negative /\ res.negative
    /\ Len(res.mantissa) > Len(a.mantissa)

\* C13: pow called with a negative exponent always fails with an error and
\* returns no value, whichever way the base and the exponent were created.
C13_NegativeExponentFails == (op = "pow" /\ b.negative) => IsErr(res)

\* a from_int base raised to a negative exponent parsed by from_decimal_string
C13_Witness ==
    /\ op = "pow" /\ b.negative /\ b.cls = "MegaInteger" /\ a.cls = "MegaNumber"
    /\ ~IsZeroLimbs(a.mantissa) /\ res.err = "NotImplementedError"

(***************************************************************************)
(* Limb-level specification: the operands are canonical limb sequences     *)
(* and each action applies one primitive to them.                          *)
(***************************************************************************)
LimbSeqs == UNION {[1..n -> LimbSamples] : n \in 1..MaxLen}

CanonicalLimbSeqs == {s \in LimbSeqs : IsCanonical(s)}

InitLimb ==
    /\ op = "init"
    /\ a \in CanonicalLimbSeqs
    /\ b \in CanonicalLimbSeqs
    /\ res = <<>>
    /\ x = <<>>
    /\ steps = 0

LimbAdd ==
    /\ op = "init"
    /\ op' = "_add_chunklists"
    /\ res' = _add_chunklists(a, b)
    /\ UNCHANGED <<a, b, x, steps>>

LimbSub ==
    /\ op = "init"
    /\ _compare_abs(a, b) >= 0
    /\ op' = "_sub_chunklists"
    /\ res' = _sub_chunklists(a, b)
    /\ UNCHANGED <<a, b, x, steps>>

LimbDiv ==
    /\ op = "init"
    /\ op' = "_div_chunk"
    /\ res' = _div_chunk(a, b)
    /\ UNCHANGED <<a, b, x, steps>>

\* MegaNumber.add on the integer-mode values built from the two sequences
LimbNumberAdd ==
    /\ op = "init"
    /\ op' = "add"
    /\ res' = add(MegaNumber(a, None, FALSE, FALSE, FALSE), MegaNumber(b, None, FALSE, FALSE, FALSE))
    /\ UNCHANGED <<a, b, x, steps>>

\* hpc_divmod on the integer-mode values built from the two sequences
LimbHpcDivmod ==
    /\ op = "init"
    /\ op' = "hpc_divmod"
    /\ res' = hpc_divmod(MegaNumber(a, None, FALSE, FALSE, FALSE),
                         MegaNumber(b, None, FALSE, FALSE, FALSE))
    /\ UNCHANGED <<a, b, x, steps>>

NextLimb == LimbAdd \/ LimbSub \/ LimbDiv \/ LimbNumberAdd \/ LimbHpcDivmod

SpecLimb == InitLimb /\ [][NextLimb]_vars

\* C4: for canonical limb sequences A and B, the limb-level addition, and
\* MegaNumber.add on the non-negative integer-mode values holding them, return a
\* canonical limb sequence that decodes to decode(A) + decode(B).
C4_AddDecodesToSum ==
    /\ op = "_add_chunklists" =>
           (IsCanonical(res) /\ decode(res) = decode(a) + decode(b))
    /\ op = "add" =>
           (~IsErr(res) /\ ~res.negative /\ IsCanonical(res.mantissa)
            /\ decode(res.mantissa) = decode(a) + decode(b))

\* a sum that carried into a new top limb
C4_Witness ==
    /\ op = "_add_chunklists"
    /\ Len(a) = MaxLen /\ Len(b) = MaxLen /\ Len(res) = MaxLen + 1

\* limb-level part of C6: for A >= B the difference decodes to decode(A) - decode(B)
C6_LimbSub ==
    op = "_sub_chunklists" => (IsCanonical(res) /\ decode(res) = decode(a) - decode(b))

\* C8: for A >= 0 and B > 0, (Q, R) = divmod(A, B) satisfies 0 <= decode(R) <
\* decode(B) and decode(A) = decode(Q) * decode(B) + decode(R), and every
\* quotient limb found by the binary search over [0, BASE) is the largest guess
\* with B * guess <= R.
C8_Divmod ==
    /\ (op = "_div_chunk" /\ b # <<0>>) =>
           /\ res.err = ""
           /\ IsCanonical(res.Q) /\ IsCanonical(res.R)
           /\ decode(res.R) < decode(b)
           /\ decode(a) = decode(res.Q) * decode(b) + decode(res.R)
           /\ \A i \in 1..Len(res.trace) :
                  /\ res.trace[i].guess \in 0..(_base - 1)
                  /\ res.trace[i].guess = decode(res.trace[i].R) \div decode(b)
    /\ (op = "hpc_divmod" /\ b # <<0>>) =>
           /\ res.err = ""
           /\ ~res.r.negative /\ ~res.q.negative
           /\ decode(res.r.mantissa) < decode(b)
           /\ decode(a) = decode(res.q.mantissa) * decode(b) + decode(res.r.mantissa)

\* a long division of a two-limb dividend with a non-zero remainder, whose
\* binary search found a guess above the middle of the range
C8_Witness ==
    /\ op = "_div_chunk"
    /\ Len(a) = 2 /\ res.err = "" /\ Len(res.trace) = 2
    /\ res.R # <<0>> /\ Len(res.Q) = 2
    /\ \E i \in 1..Len(res.trace) : res.trace[i].guess > _base \div 2

(***************************************************************************)
(* A caller of the MegaFraction API.  x is the fraction the caller holds,  *)
(* a and b the receiver and the argument of the last call, res what it     *)
(* returned.  After a constructor call a holds the arguments.              *)
(***************************************************************************)
MaxFracInt == 2

FracInts == (-MaxFracInt)..MaxFracInt

NoFrac == [err |-> "", num |-> NoNum, den |-> NoNum]

FracOperands ==
    {f \in {MegaFraction(from_int(n), from_int(d)) : n \in FracInts, d \in FracInts} :
        f.err = ""}

KeepFrac(r, old) ==
    IF r.err = "" /\ Len(r.num.mantissa) <= MaxLen /\ Len(r.den.mantissa) <= MaxLen
    THEN r ELSE old

InitFrac ==
    /\ op = "MegaFraction"
    /\ a = [numerator |-> from_int(0), denominator |-> from_int(1), same |-> FALSE]
    /\ b = NoFrac
    /\ x = MegaFraction(from_int(0), from_int(1))
    /\ res = x
    /\ steps = 0

FracCall(name, self, other, r) ==
    /\ steps < MaxSteps
    /\ op' = name
    /\ a' = self
    /\ b' = other
    /\ res' = r
    /\ x' = KeepFrac(r, x)
    /\ steps' = steps + 1

\* MegaFraction(n, d) on two objects, or on one object passed twice
FracConstruct ==
    \E n \in FracInts, d \in FracInts, same \in BOOLEAN :
        /\ same => n = d
        /\ FracCall("MegaFraction",
                    [numerator |-> from_int(n), denominator |-> from_int(d), same |-> same],
                    NoFrac, MegaFractionInit(from_int(n), from_int(d), same))

\* decimal literals, and texts "n/d" as in test_fraction_zero_den_error
FracDecInputs == DecInputs \cup {<<n, "/", d>> : n \in {"0", "5"}, d \in {"0", "5"}}

\* MegaFraction.from_decimal_string(s); a holds the text
FracFromDecimalString ==
    \E s \in FracDecInputs :
        FracCall("from_decimal_string", s, NoFrac, MegaFraction_from_decimal_string(s))

FracAdd ==
    \E o \in FracOperands \cup {x} :
        \/ FracCall("add", x, o, MegaFraction_add(x, o))
        \/ FracCall("add", o, x, MegaFraction_add(o, x))

FracSub ==
    \E o \in FracOperands \cup {x} :
        \/ FracCall("sub", x, o, MegaFraction_sub(x, o))
        \/ FracCall("sub", o, x, MegaFraction_sub(o, x))

FracMul ==
    \E o \in FracOperands \cup {x} :
        \/ FracCall("mul", x, o, MegaFraction_mul(x, o))
        \/ FracCall("mul", o, x, MegaFraction_mul(o, x))

FracDiv ==
    \E o \in FracOperands \cup {x} :
        \/ FracCall("div", x, o, MegaFraction_div(x, o))
        \/ FracCall("div", o, x, MegaFraction_div(o, x))

FracCopy == FracCall("copy", x, NoFrac, MegaFraction_copy(x))

NextFrac ==
    \/ FracConstruct \/ FracFromDecimalString
    \/ FracAdd \/ FracSub \/ FracMul \/ FracDiv \/ FracCopy

SpecFrac == InitFrac /\ [][NextFrac]_vars

\* the native gcd of two naturals
RECURSIVE Gcd(_, _)
Gcd(m, n) == IF n = 0 THEN m ELSE Gcd(n, m % n)

\* den > 0, gcd(|num|, den) = 1, sign on num only
Reduced(f) ==
    /\ ~f.den.negative /\ decode(f.den.mantissa) > 0
    /\ Gcd(decode(f.num.mantissa), decode(f.den.mantissa)) = 1

\* C3: every Rational that exists after construction or after add, sub, mul,
\* div or copy has den > 0 and gcd(|num|, den) = 1, the sign carried by num only.
C3_ReducedPositiveDen == res.err = "" => Reduced(res)

\* what the code does keep: the same, unless one negative object was passed to
\* the constructor as both numerator and denominator
C3_DistinctArguments ==
    (res.err = "" /\ ~(op = "MegaFraction" /\ a.same)) => Reduced(res)

\* a division by a negative rational, whose raw denominator is negative
C3_DivNegative ==
    /\ op = "div" /\ res.err = "" /\ b.num.negative /\ ~a.num.negative
    /\ res.num.negative /\ decode(res.den.mantissa) > 1

(***************************************************************************)
(* OptimizedToom3: the size-adaptive multiplier on limb arrays.            *)
(* Arrays are sequences, index 1 the least significant limb.  The in-place *)
(* helpers return the array they leave behind.                             *)
(***************************************************************************)
KaratsubaMin == 32

Toom3Min == 128

\* for j in range(lb) of _schoolbook, iterations lo..hi of row i
RECURSIVE SchoolInner(_, _, _, _, _, _, _, _)
SchoolInner(st, av, B, i, lo, hi, csize, base) ==
    IF lo > hi THEN st
    ELSE IF lo = hi
    THEN LET mul_val == av * B[lo] + st.out[i + lo - 1] + st.carry
         IN [out |-> [st.out EXCEPT ![i + lo - 1] = mul_val % base],
             carry |-> mul_val \div (2 ^ csize)]
    ELSE LET left == SchoolInner(st, av, B, i, lo, (lo + hi) \div 2, csize, base)
         IN IF Evaluated(left.out)
            THEN SchoolInner(left, av, B, i, (lo + hi) \div 2 + 1, hi, csize, base)
            ELSE left

\* one row of _schoolbook.  out[i+lb] is still 0 when the carry is added and
\* the carry is below base, so the 64-bit mask of the source changes nothing
SchoolRow(out, av, B, i, csize, base) ==
    LET r == SchoolInner([out |-> out, carry |-> 0], av, B, i, 1, Len(B), csize, base)
    IN IF r.carry # 0
       THEN [r.out EXCEPT ![i + Len(B)] = r.out[i + Len(B)] + r.carry]
       ELSE r.out

\* for i in range(la) of _schoolbook, rows lo..hi
RECURSIVE SchoolOuter(_, _, _, _, _, _, _)
SchoolOuter(out, A, B, lo, hi, csize, base) ==
    IF lo > hi THEN out
    ELSE IF lo = hi THEN SchoolRow(out, A[lo], B, lo, csize, base)
    ELSE LET left == SchoolOuter(out, A, B, lo, (lo + hi) \div 2, csize, base)
         IN IF Evaluated(left)
            THEN SchoolOuter(left, A, B, (lo + hi) \div 2 + 1, hi, csize, base)
            ELSE left

_schoolbook(A, B, csize, base) ==
    StripZeros(SchoolOuter(Zeros(Len(A) + Len(B)), A, B, 1, Len(A), csize, base))

RECURSIVE AddArraysLoop(_, _, _, _, _, _, _)
AddArraysLoop(st, A, B, lo, hi, csize, base) ==
    IF lo > hi THEN st
    ELSE IF lo = hi
    THEN LET av == IF lo <= Len(A) THEN A[lo] ELSE 0
             bv == IF lo <= Len(B) THEN B[lo] ELSE 0
             s_val == av + bv + st.carry
         IN [out |-> Append(st.out, s_val % base), carry |-> s_val \div (2 ^ csize)]
    ELSE LET left == AddArraysLoop(st, A, B, lo, (lo + hi) \div 2, csize, base)
         IN IF Evaluated(left.out)
            THEN AddArraysLoop(left, A, B, (lo + hi) \div 2 + 1, hi, csize, base)
            ELSE left

\* _add_arrays without "if carry: out.append(...)"
_add_arrays_no_carry(A, B, csize, base) ==
    AddArraysLoop([out |-> <<>>, carry |-> 0], A, B, 1, Max(Len(A), Len(B)), csize, base).out

_add_arrays(A, B, csize, base) ==
    LET r == AddArraysLoop([out |-> <<>>, carry |-> 0], A, B, 1, Max(Len(A), Len(B)),
                           csize, base)
    IN IF r.carry # 0 THEN Append(r.out, r.carry % base) ELSE r.out

RECURSIVE SubInPlaceLoop(_, _, _, _, _)
SubInPlaceLoop(st, source, lo, hi, base) ==
    IF lo > hi THEN st
    ELSE IF lo = hi
    THEN LET sv == IF lo <= Len(source) THEN source[lo] ELSE 0
             diff == st.out[lo] - sv - st.carry
         IN IF diff < 0
            THEN [out |-> [st.out EXCEPT ![lo] = (diff + base) % base], carry |-> 1]
            ELSE [out |-> [st.out EXCEPT ![lo] = diff % base], carry |-> 0]
    ELSE LET left == SubInPlaceLoop(st, source, lo, (lo + hi) \div 2, base)
         IN IF Evaluated(left.out)
            THEN SubInPlaceLoop(left, source, (lo + hi) \div 2 + 1, hi, base)
            ELSE left

_sub_in_place(target, source, csize, base) ==
    SubInPlaceLoop([out |-> target, carry |-> 0], source, 1, Len(target), base).out

\* for i in range(len(source)) of _add_shifted, iterations lo..hi
RECURSIVE AddShiftedLoop(_, _, _, _, _, _, _)
AddShiftedLoop(st, source, shift, lo, hi, csize, base) ==
    IF lo > hi THEN st
    ELSE IF lo = hi
    THEN LET s_val == st.out[lo + shift] + source[lo] + st.carry
         IN [out |-> [st.out EXCEPT ![lo + shift] = s_val % base],
             carry |-> s_val \div (2 ^ csize)]
    ELSE LET left == AddShiftedLoop(st, source, shift, lo, (lo + hi) \div 2, csize, base)
         IN IF Evaluated(left.out)
            THEN AddShiftedLoop(left, source, shift, (lo + hi) \div 2 + 1, hi, csize, base)
            ELSE left

\* while carry and idx < length of _add_shifted, positions lo..hi
RECURSIVE AddShiftedCarry(_, _, _, _, _)
AddShiftedCarry(st, lo, hi, csize, base) ==
    IF lo > hi \/ st.carry = 0 THEN st
    ELSE IF lo = hi
    THEN LET s_val == st.out[lo] + st.carry
         IN [out |-> [st.out EXCEPT ![lo] = s_val % base], carry |-> s_val \div (2 ^ csize)]
    ELSE LET left == AddShiftedCarry(st, lo, (lo + hi) \div 2, csize, base)
         IN IF Evaluated(left.out)
            THEN AddShiftedCarry(left, (lo + hi) \div 2 + 1, hi, csize, base)
            ELSE left

\* _add_shifted without the "while carry and idx < length" loop
_add_shifted_no_carry(target, source, shift, csize, base) ==
    LET last == IF Len(source) + shift <= Len(target) THEN Len(source)
                ELSE Len(target) - shift
    IN AddShiftedLoop([out |-> target, carry |-> 0], source, shift, 1, last, csize, base).out

\* the first loop breaks at the first idx >= length, so it runs while
\* i + shift stays inside target
_add_shifted(target, source, shift, csize, base) ==
    LET last == IF Len(source) + shift <= Len(target) THEN Len(source)
                ELSE Len(target) - shift
        r == AddShiftedLoop([out |-> target, carry |-> 0], source, shift, 1, last, csize, base)
    IN AddShiftedCarry(r, shift + Len(source) + 1, Len(target), csize, base).out

RECURSIVE _karatsuba(_, _, _, _)
_karatsuba(A, B, csize, base) ==
    LET n == Max(Len(A), Len(B))
    IN IF n < KaratsubaMin THEN _schoolbook(A, B, csize, base)
       ELSE LET half == n \div 2
                A0 == SubSeq(A, 1, IF half < Len(A) THEN half ELSE Len(A))
                A1 == SubSeq(A, half + 1, Len(A))
                B0 == SubSeq(B, 1, IF half < Len(B) THEN half ELSE Len(B))
                B1 == SubSeq(B, half + 1, Len(B))
                z0 == _karatsuba(A0, B0, csize, base)
                z2 == _karatsuba(A1, B1, csize, base)
                sumA == _add_arrays(A0, A1, csize, base)
                sumB == _add_arrays(B0, B1, csize, base)
                z1 == _sub_in_place(_sub_in_place(_karatsuba(sumA, sumB, csize, base),
                                                  z0, csize, base), z2, csize, base)
                result == _add_shifted(
                              _add_shifted(
                                  _add_shifted(Zeros(n * 2), z0, 0, csize, base),
                                  z1, half, csize, base),
                              z2, half * 2, csize, base)
            IN StripZeros(result)

_toom3(A, B, csize, base) == _schoolbook(A, B, csize, base)

\* _sub_in_place ends with carry = 1, or source has a non-zero limb beyond target
SubBorrows(target, source, base) ==
    \/ SubInPlaceLoop([out |-> target, carry |-> 0], source, 1, Len(target), base).carry # 0
    \/ \E i \in (Len(target) + 1)..Len(source) : source[i] # 0

\* _add_shifted ends with carry # 0, or breaks before a non-zero limb of source
AddDrops(target, source, shift, csize, base) ==
    LET last == IF Len(source) + shift <= Len(target) THEN Len(source)
                ELSE Len(target) - shift
        r == AddShiftedLoop([out |-> target, carry |-> 0], source, shift, 1, last, csize, base)
    IN \/ AddShiftedCarry(r, shift + Len(source) + 1, Len(target), csize, base).carry # 0
       \/ \E i \in (last + 1)..Len(source) : source[i] # 0

\* some call of the recursion of _karatsuba(A, B) has a subtraction that
\* borrows past the top limb or a shifted addition that drops a carry
RECURSIVE KaratsubaLoses(_, _, _, _)
KaratsubaLoses(A, B, csize, base) ==
    LET n == Max(Len(A), Len(B))
    IN IF n < KaratsubaMin THEN FALSE
       ELSE LET half == n \div 2
                A0 == SubSeq(A, 1, IF half < Len(A) THEN half ELSE Len(A))
                A1 == SubSeq(A, half + 1, Len(A))
                B0 == SubSeq(B, 1, IF half < Len(B) THEN half ELSE Len(B))
                B1 == SubSeq(B, half + 1, Len(B))
            IN Bind2(_karatsuba(A0, B0, csize, base), _karatsuba(A1, B1, csize, base),
                 LAMBDA z0, z2 :
               Bind2(_add_arrays(A0, A1, csize, base), _add_arrays(B0, B1, csize, base),
                 LAMBDA sumA, sumB :
               Bind(_karatsuba(sumA, sumB, csize, base), LAMBDA z1raw :
               Bind(_sub_in_place(z1raw, z0, csize, base), LAMBDA z1mid :
               Bind(_sub_in_place(z1mid, z2, csize, base), LAMBDA z1 :
               Bind(_add_shifted(Zeros(n * 2), z0, 0, csize, base), LAMBDA r0 :
               Bind(_add_shifted(r0, z1, half, csize, base), LAMBDA r1 :
                   \/ SubBorrows(z1raw, z0, base)
                   \/ SubBorrows(z1mid, z2, base)
                   \/ AddDrops(Zeros(n * 2), z0, 0, csize, base)
                   \/ AddDrops(r0, z1, half, csize, base)
                   \/ AddDrops(r1, z2, half * 2, csize, base)
                   \/ KaratsubaLoses(A0, B0, csize, base)
                   \/ KaratsubaLoses(A1, B1, csize, base)
                   \/ KaratsubaLoses(sumA, sumB, csize, base))))))))

multiply(A, B) ==
    LET csize == _global_chunk_size
        base == 2 ^ csize
        n == Max(Len(A), Len(B))
    IN IF n < KaratsubaMin THEN _schoolbook(A, B, csize, base)
       ELSE IF n < Toom3Min THEN _karatsuba(A, B, csize, base)
       ELSE _toom3(A, B, csize, base)

(***************************************************************************)
(* A caller of multiply: two canonical arrays whose lengths lie around the *)
(* dispatch thresholds, then one call.                                     *)
(***************************************************************************)
MulLens == {1, 2, KaratsubaMin - 1, KaratsubaMin, KaratsubaMin + 1, 2 * KaratsubaMin + 1,
            Toom3Min}

MulPatterns == {"max", "ramp", "sparse"}

\* limb i of an n-limb canonical array of the given pattern
PatternLimb(kind, n, i) ==
    IF kind = "max" THEN _mask
    ELSE IF kind = "ramp"
    THEN (IF (i * 37 + 11) % _base = 0 THEN 1 ELSE (i * 37 + 11) % _base)
    ELSE IF i = n THEN 1 ELSE IF i % 3 = 0 THEN _mask ELSE 0

Pattern(kind, n) == [i \in 1..n |-> PatternLimb(kind, n, i)]

MulInputs == {Pattern(kind, n) : kind \in MulPatterns, n \in MulLens}

InitMul ==
    /\ op = "init"
    /\ a \in MulInputs
    /\ b \in MulInputs
    /\ res = <<>>
    /\ x = <<>>
    /\ steps = 0

Multiply ==
    /\ op = "init"
    /\ op' = "multiply"
    /\ res' = multiply(a, b)
    /\ UNCHANGED <<a, b, x, steps>>

MulChunklists ==
    /\ op = "init"
    /\ op' = "_mul_chunklists"
    /\ res' = _mul_chunklists(a, b, _global_chunk_size, _base)
    /\ UNCHANGED <<a, b, x, steps>>

MaxKaratsubaLen == 2 * KaratsubaMin + 1

\* _karatsuba and _schoolbook called on the same arrays; x holds what
\* _schoolbook returned and whether the Karatsuba recursion lost a borrow or
\* a carry
Karatsuba ==
    /\ op = "init" /\ Max(Len(a), Len(b)) <= MaxKaratsubaLen
    /\ op' = "_karatsuba"
    /\ res' = _karatsuba(a, b, _global_chunk_size, _base)
    /\ x' = <<_schoolbook(a, b, _global_chunk_size, _base),
              KaratsubaLoses(a, b, _global_chunk_size, _base)>>
    /\ UNCHANGED <<a, b, steps>>

NextMul == Multiply \/ MulChunklists \/ Karatsuba

SpecMul == InitMul /\ [][NextMul]_vars

C7_Toom3Slot ==
    /\ op = "multiply" /\ Len(a) = Toom3Min /\ Len(b) = KaratsubaMin
    /\ res = LimbProduct(a, b)

\* C27: Karatsuba and schoolbook multiplication are equivalent: for all A and
\* B, equal or unequal in length, _karatsuba(A, B) returns the same canonical
\* limb sequence as _schoolbook(A, B); the in-place subtraction z1 - z0 - z2
\* never borrows past the top limb and the shifted additions into the zeroed
\* result never drop a carry.
C27_KaratsubaIsSchoolbook ==
    op = "_karatsuba" => (res = x[1] /\ IsCanonical(res) /\ ~x[2])

\* a two-level recursion on operands whose shorter one has an empty high half
C27_Witness ==
    /\ op = "_karatsuba" /\ res = x[1]
    /\ Len(a) = 2 * KaratsubaMin + 1 /\ Len(b) = KaratsubaMin - 1
    /\ Len(res) = Len(a) + Len(b)

(***************************************************************************)
(* Decimal text in and out.  The caller holds an input a, a decimal        *)
(* literal or a pair of integers, builds the object x from it and formats  *)
(* x; b holds the locals of a running to_decimal_string_unbounded, res the *)
(* text returned and steps the iterations of the digit loop so far.        *)
(***************************************************************************)
MaxLitLen == 3

MaxNum == 5

MaxDen == 20

MaxDigits == 5

LitChars == {"-", ".", "0", "2", "5"}

Literals == Strings(LitChars, MaxLitLen)

Pairs == (-MaxNum..MaxNum) \X (-MaxDen..MaxDen)

NoLocals ==
    [err |-> "", sign_str |-> <<>>, int_str |-> <<>>, r_abs |-> NoNum, frac_digits |-> <<>>]

InitDec ==
    /\ op = "init"
    /\ \/ \E s \in Literals : a = <<"literal", s>>
       \/ \E p \in Pairs : a = <<"pair", p>>
    /\ x = NoNum
    /\ b = NoLocals
    /\ res = Text(<<>>)
    /\ steps = 0

ParseNumber ==
    /\ op = "init" /\ a[1] = "literal"
    /\ op' = "from_decimal_string"
    /\ x' = from_decimal_string(a[2])
    /\ UNCHANGED <<a, b, res, steps>>

FormatNumber ==
    /\ op = "from_decimal_string" /\ ~IsErr(x)
    /\ op' = "to_decimal_string"
    /\ res' = Text(to_decimal_string(x))
    /\ UNCHANGED <<a, b, x, steps>>

ParseFraction ==
    /\ op = "init" /\ a[1] = "literal"
    /\ op' = "MegaFraction.from_decimal_string"
    /\ x' = MegaFraction_from_decimal_string(a[2])
    /\ UNCHANGED <<a, b, res, steps>>

BuildFraction ==
    /\ op = "init" /\ a[1] = "pair"
    /\ op' = "MegaFraction"
    /\ x' = MegaFraction(from_int(a[2][1]), from_int(a[2][2]))
    /\ UNCHANGED <<a, b, res, steps>>

\* what the loop's exit test and the return make of the locals loc
LoopOrReturn(loc) ==
    IF loc.err # ""
    THEN op' = "to_decimal_string_unbounded" /\ res' = TextErr(loc.err) /\ b' = loc
    ELSE IF hpc_is_zero(loc.r_abs)
    THEN op' = "to_decimal_string_unbounded" /\ res' = Text(UnboundedText(loc)) /\ b' = loc
    ELSE op' = "digit loop" /\ res' = res /\ b' = loc

\* the call x.to_decimal_string_unbounded(): it returns when the remainder is
\* zero, and enters the digit loop otherwise
FormatFraction ==
    /\ op \in {"MegaFraction", "MegaFraction.from_decimal_string"} /\ x.err = ""
    /\ LET loc == UnboundedLocals(x)
       IN IF loc.err # ""
          THEN op' = "to_decimal_string_unbounded" /\ res' = TextErr(loc.err) /\ b' = loc
          ELSE IF hpc_is_zero(loc.r_abs)
          THEN /\ op' = "to_decimal_string_unbounded"
               /\ res' = Text(loc.sign_str \o loc.int_str)
               /\ b' = loc
          ELSE op' = "digit loop" /\ res' = res /\ b' = loc
    /\ UNCHANGED <<a, x, steps>>

\* one iteration of the digit loop
DigitLoop ==
    /\ op = "digit loop" /\ steps < MaxDigits
    /\ LoopOrReturn(DigitIteration(x, b))
    /\ steps' = steps + 1
    /\ UNCHANGED <<a, x>>

NextDec ==
    \/ ParseNumber \/ FormatNumber \/ ParseFraction \/ BuildFraction
    \/ FormatFraction \/ DigitLoop

SpecDec == InitDec /\ [][NextDec]_vars

\* the steps of NextDec that count an iteration: DigitLoop is the only action
\* that changes steps, and it can take a step whenever its guard holds
LoopIteration == op = "digit loop" /\ steps < MaxDigits /\ steps' = steps + 1

\* a loop that is running keeps running: the interpreter executes the next
\* iteration of "while True" as long as the call has not returned
SpecDecLive == SpecDec /\ WF_steps(LoopIteration)

\* a decimal literal: an optional leading "-", digits, at most one "."; the
\* empty string is one, and any other literal has a digit
Unsigned(d) == IF d # <<>> /\ d[1] = "-" THEN Tail(d) ELSE d

IsDecLiteral(d) ==
    \/ d = <<>>
    \/ /\ \A i \in 1..Len(Unsigned(d)) : IsDigit(Unsigned(d)[i]) \/ Unsigned(d)[i] = "."
       /\ Cardinality({i \in 1..Len(Unsigned(d)) : Unsigned(d)[i] = "."}) <= 1
       /\ \E i \in 1..Len(Unsigned(d)) : IsDigit(Unsigned(d)[i])

\* the digits before and after the point
IntPart(d) ==
    IF FindPoint(Unsigned(d)) = 0 THEN Unsigned(d)
    ELSE SubSeq(Unsigned(d), 1, FindPoint(Unsigned(d)) - 1)

FracPart(d) ==
    IF FindPoint(Unsigned(d)) = 0 THEN <<>>
    ELSE SubSeq(Unsigned(d), FindPoint(Unsigned(d)) + 1, Len(Unsigned(d)))

RECURSIVE DropLeadingZeros(_)
DropLeadingZeros(ds) ==
    IF ds = <<>> THEN <<"0">>
    ELSE IF ds[1] = "0" /\ Len(ds) > 1 THEN DropLeadingZeros(Tail(ds))
    ELSE ds

RECURSIVE DropTrailingZeros(_)
DropTrailingZeros(ds) ==
    IF ds # <<>> /\ ds[Len(ds)] = "0" THEN DropTrailingZeros(SubSeq(ds, 1, Len(ds) - 1))
    ELSE ds

\* canonical(d): no leading zeros before the point, no trailing zeros after it,
\* no point without digits after it, no sign on zero
Canonical(d) ==
    LET ip == DropLeadingZeros(IntPart(d))
        fp == DropTrailingZeros(FracPart(d))
        minus == d # <<>> /\ d[1] = "-" /\ ~(ip = <<"0">> /\ fp = <<>>)
    IN (IF minus THEN <<"-">> ELSE <<>>) \o ip \o (IF fp = <<>> THEN <<>> ELSE <<".">> \o fp)

\* the input is a decimal literal, without a fractional part if whole is set
LiteralInput(whole) ==
    /\ a[1] = "literal" /\ IsDecLiteral(a[2])
    /\ whole => FracPart(a[2]) = <<>>

\* C14: decimal round trip: for any terminating decimal literal d, formatting the
\* parsed value gives canonical(d): BigNumber to_decimal_string of
\* from_decimal_string(d) for literals without a fractional part, and Rational
\* to_decimal_string_unbounded of from_decimal_string(d) for all literals.
C14_DecimalRoundTrip ==
    /\ (op = "from_decimal_string" /\ LiteralInput(TRUE)) => ~IsErr(x)
    /\ (op = "to_decimal_string" /\ LiteralInput(TRUE)) => res.text = Canonical(a[2])
    /\ (op = "MegaFraction.from_decimal_string" /\ LiteralInput(FALSE)) => x.err = ""
    /\ (op = "to_decimal_string_unbounded" /\ LiteralInput(FALSE)) =>
           (res.err = "" /\ res.text = Canonical(a[2]))

\* what the code does keep: the BigNumber half of the round trip
C14_BigNumberRoundTrip ==
    /\ (op = "from_decimal_string" /\ LiteralInput(TRUE)) => ~IsErr(x)
    /\ (op = "to_decimal_string" /\ LiteralInput(TRUE)) => res.text = Canonical(a[2])

\* a negative literal with a leading zero formatted back by the BigNumber
C14_LeadingZero ==
    /\ op = "to_decimal_string" /\ a[2] = <<"-", "0", "5">> /\ res.text = <<"-", "5">>

\* the digits of r / den after the point, r < den, at most n of them
RECURSIVE FracDigits(_, _, _)
FracDigits(r, den, n) ==
    IF r = 0 \/ n = 0 THEN <<>>
    ELSE NatToStr((10 * r) \div den) \o FracDigits((10 * r) % den, den, n - 1)

\* [sign][int][.frac] of the Rational f
ExpansionOf(f) ==
    LET n == decode(f.num.mantissa)
        d == decode(f.den.mantissa)
    IN (IF f.num.negative THEN <<"-">> ELSE <<>>) \o NatToStr(n \div d)
       \o (IF n % d = 0 THEN <<>> ELSE <<".">> \o FracDigits(n % d, d, MaxDigits + 1))

BuiltFromPair == a[1] = "pair" /\ x.err = ""

\* C18: for every Rational with a terminating expansion,
\* to_decimal_string_unbounded returns [sign][int][.frac]: the sign is "-"
\* exactly when num is negative, also when the integer part is 0; int is
\* |num| div den; the fractional digits are the exact decimal digits; there is
\* no decimal point when the value is an integer.
C18_SignIntFrac ==
    (op = "to_decimal_string_unbounded" /\ BuiltFromPair) =>
        (res.err = "" /\ res.text = ExpansionOf(x))

\* what the code does keep: the same, unless num is negative and |num| < den
C18_UnlessNegativeBelowOne ==
    (op = "to_decimal_string_unbounded" /\ BuiltFromPair
        /\ ~(x.num.negative /\ decode(x.num.mantissa) < decode(x.den.mantissa))) =>
        (res.err = "" /\ res.text = ExpansionOf(x))

\* a negative Rational above one in magnitude with two fractional digits
C18_NegativeTwoDigits ==
    /\ op = "to_decimal_string_unbounded" /\ BuiltFromPair /\ x.num.negative
    /\ steps = 2 /\ res.text = ExpansionOf(x)

\* n has no prime factor other than 2 and 5
RECURSIVE TwoFive(_)
TwoFive(n) ==
    IF n % 2 = 0 THEN TwoFive(n \div 2)
    ELSE IF n % 5 = 0 THEN TwoFive(n \div 5)
    ELSE n = 1

InLoop == op = "digit loop"

\* the denominator of n/d in lowest terms has no prime factor other than 2, 5
Finite ==
    /\ a[1] = "pair" /\ a[2][2] # 0
    /\ TwoFive(Abs(a[2][2]) \div Gcd(Abs(a[2][1]), Abs(a[2][2])))

C19_StillRunning ==
    /\ InLoop /\ steps = MaxDigits /\ decode(x.den.mantissa) = 3
    /\ ~hpc_is_zero(b.r_abs)

(***************************************************************************)
(* Rational arithmetic, checked on the callers of SpecFrac.                *)
(***************************************************************************)
FracArith == {"add", "sub", "mul", "div"}

RECURSIVE DigitsToNat(_)
DigitsToNat(ds) ==
    IF ds = <<>> THEN 0
    ELSE 10 * DigitsToNat(SubSeq(ds, 1, Len(ds) - 1)) + DigitVal(ds[Len(ds)])

\* numerator and denominator of the decimal literal d
LiteralNum(d) ==
    IF d # <<>> /\ d[1] = "-" THEN -DigitsToNat(IntPart(d) \o FracPart(d))
    ELSE DigitsToNat(IntPart(d) \o FracPart(d))

LiteralDen(d) == 10 ^ Len(FracPart(d))

\* the Rational f stands for n/d
SameValue(f, n, d) == Value(f.num) * d = n * Value(f.den)

\* p name q by cross-multiplication, as <<numerator, denominator>>
CrossMultiplied(name, p, q) ==
    LET pn == Value(p.num)
        pd == Value(p.den)
        qn == Value(q.num)
        qd == Value(q.den)
    IN CASE name = "add" -> <<pn * qd + qn * pd, pd * qd>>
         [] name = "sub" -> <<pn * qd - qn * pd, pd * qd>>
         [] name = "mul" -> <<pn * qn, pd * qd>>
         [] name = "div" -> <<pn * qd, pd * qn>>

\* the call returned the reduced Rational equal to the exact result
ExactResult ==
    /\ res.err = "" /\ Reduced(res)
    /\ SameValue(res, CrossMultiplied(op, a, b)[1], CrossMultiplied(op, a, b)[2])

\* C15: for all Rationals x and y of any signs built by from_decimal_string,
\* x.add(y), x.sub(y), x.mul(y) and, for y # 0, x.div(y) return the reduced
\* Rational exactly equal to x + y, x - y, x * y and x / y.
C15_ExactArithmetic ==
    /\ (op = "from_decimal_string" /\ IsDecLiteral(a)) =>
           (res.err = "" /\ SameValue(res, LiteralNum(a), LiteralDen(a)))
    /\ (op \in FracArith /\ ~(op = "div" /\ hpc_is_zero(b.num))) => ExactResult

\* what the code does keep: the same for Rationals built by the constructor
C15_ConstructorBuilt ==
    (op \in FracArith /\ ~(op = "div" /\ hpc_is_zero(b.num))) => ExactResult

\* (-2) + 1 = -1
C15_NegativePlusPositive ==
    /\ op = "add" /\ res.err = ""
    /\ Value(a.num) = -2 /\ Value(a.den) = 1 /\ Value(b.num) = 1 /\ Value(b.den) = 1
    /\ Value(res.num) = -1 /\ Value(res.den) = 1

\* the same numerator and the same denominator, signs included
SameParts(f, g) ==
    /\ f.num.mantissa = g.num.mantissa /\ f.num.negative = g.num.negative
    /\ f.den.mantissa = g.den.mantissa /\ f.den.negative = g.den.negative

\* the step is q.sub(y) on the q that the previous call p.add(y) returned
SubAfterAdd == op = "add" /\ res.err = "" /\ op' = "sub" /\ a' = res /\ b' = b

\* C16: Rational cross-operation identity: for all Rationals a/b and c/d of any
\* signs, (a/b).add(c/d).sub(c/d) has the same numerator and denominator as a/b.
C16_AddThenSub ==
    [][SubAfterAdd => (res'.err = "" /\ SameParts(res', a))]_vars

\* what the code does keep: the identity for every reduced a/b
C16_ReducedAddThenSub ==
    [][(SubAfterAdd /\ Reduced(a)) => (res'.err = "" /\ SameParts(res', a))]_vars

\* a subtraction that gave back a negative Rational with denominator 2
C16_NegativeHalfBack ==
    /\ op = "sub" /\ res.err = "" /\ Value(res.num) = -1 /\ Value(res.den) = 2
    /\ Value(b.num) = 1 /\ Value(b.den) = 1 /\ Value(a.num) = 1 /\ Value(a.den) = 2

\* the text is "n/d" with d a non-empty run of zeros
DenotesZeroDen(s) ==
    \E i \in 1..(Len(s) - 1) :
        /\ s[i] = "/"
        /\ \A j \in (i + 1)..Len(s) : s[j] = "0"

\* C17: no Rational with a zero denominator is ever produced: the constructor
\* with denominator zero, div by a Rational whose numerator is zero, and
\* from_decimal_string of a text that denotes a zero denominator all fail with
\* a divide-by-zero error.
C17_ZeroDenominator ==
    /\ res.err = "" => ~hpc_is_zero(res.den)
    /\ (op = "MegaFraction" /\ hpc_is_zero(a.denominator)) => res.err = "ZeroDivisionError"
    /\ (op = "div" /\ hpc_is_zero(b.num)) => res.err = "ZeroDivisionError"
    /\ (op = "from_decimal_string" /\ DenotesZeroDen(a)) => res.err = "ZeroDivisionError"

\* what the code does keep: the constructor and div
C17_ConstructorAndDiv ==
    /\ res.err = "" => ~hpc_is_zero(res.den)
    /\ (op = "MegaFraction" /\ hpc_is_zero(a.denominator)) => res.err = "ZeroDivisionError"
    /\ (op = "div" /\ hpc_is_zero(b.num)) => res.err = "ZeroDivisionError"

\* a non-zero Rational divided by 0/1
C17_DivByZeroRational ==
    /\ op = "div" /\ hpc_is_zero(b.num) /\ ~hpc_is_zero(a.num)
    /\ res.err = "ZeroDivisionError"

(***************************************************************************)
(* CPUMemoryPool.  A buffer is an array object: id tells the objects apart *)
(* and data are its elements.  x is the pool, a the argument of the last   *)
(* call, res the buffer it returned, b what the callers hold and how many  *)
(* times they called get_buffer.  Both methods run their body under        *)
(* self._lock, so with one caller at a time each call is one step.         *)
(***************************************************************************)
MaxPoolCalls == 5

PoolSizes == {0, 1, 8, 9, 16}

ForeignLens == {5, 8}

\* (size + 7) & ~7
Align(size) == ((size + 7) \div 8) * 8

PoolKeys == {Align(n) : n \in PoolSizes \cup ForeignLens}

\* CPUMemoryPool(): a key that self.pools does not have is read as the empty list
NewPool ==
    [pools |-> [k \in PoolKeys |-> <<>>],
     stats |-> [block_hits |-> 0, cache_misses |-> 0, peak_memory |-> 0]]

\* array.array('Q', [0]*n): a new object
NewBuffer(fresh, n) == [id |-> fresh, data |-> Zeros(n)]

NoBuffer == [id |-> 0, data |-> <<>>]

\* sum(len(lst) for lst in self.pools.values()) over the keys in keys
RECURSIVE IdleBuffers(_, _)
IdleBuffers(self, keys) ==
    IF keys = {} THEN 0
    ELSE LET k == CHOOSE k \in keys : TRUE
         IN Len(self.pools[k]) + IdleBuffers(self, keys \ {k})

\* the miss branch of get_buffer: a new zeroed buffer of aligned_size elements
Allocate(self, aligned_size, fresh) ==
    LET cur_mem == IdleBuffers(self, PoolKeys) * aligned_size
    IN <<[self EXCEPT !.stats.cache_misses = @ + 1,
                      !.stats.peak_memory = Max(@, cur_mem)],
         NewBuffer(fresh, aligned_size)>>

\* get_buffer without "self.stats.block_hits += 1"
get_buffer_uncounted(self, size, fresh) ==
    LET aligned_size == Align(size)
    IN IF self.pools[aligned_size] # <<>>
       THEN <<[self EXCEPT !.pools[aligned_size] = SubSeq(@, 1, Len(@) - 1)],
              self.pools[aligned_size][Len(self.pools[aligned_size])]>>
       ELSE Allocate(self, aligned_size, fresh)

\* the pool after the call and the buffer returned; fresh is the identity of
\* the object that a miss creates
get_buffer(self, size, fresh) ==
    LET aligned_size == Align(size)
    IN IF self.pools[aligned_size] # <<>>
       THEN <<[self EXCEPT !.pools[aligned_size] = SubSeq(@, 1, Len(@) - 1),
                           !.stats.block_hits = @ + 1],
              self.pools[aligned_size][Len(self.pools[aligned_size])]>>
       ELSE Allocate(self, aligned_size, fresh)

\* the pool after the call
return_buffer(self, buf) == [self EXCEPT !.pools[Align(Len(buf.data))] = Append(@, buf)]

InitPool ==
    /\ op = "CPUMemoryPool"
    /\ a = 0
    /\ b = [held |-> <<>>, gets |-> 0]
    /\ x = NewPool
    /\ res = NoBuffer
    /\ steps = 0

GetBuffer ==
    \E size \in PoolSizes :
        /\ steps < MaxPoolCalls
        /\ op' = "get_buffer"
        /\ a' = size
        /\ x' = get_buffer(x, size, steps + 1)[1]
        /\ res' = get_buffer(x, size, steps + 1)[2]
        /\ b' = [held |-> Append(b.held, get_buffer(x, size, steps + 1)[2]),
                 gets |-> b.gets + 1]
        /\ steps' = steps + 1

\* a caller writes to a buffer it holds: buf1[0] = 123 of test_pool_basic
WriteBuffer ==
    \E i \in 1..Len(b.held) :
        /\ b.held[i].data # <<>> /\ b.held[i].data[1] = 0
        /\ op' = "write"
        /\ a' = b.held[i].id
        /\ b' = [b EXCEPT !.held[i].data[1] = 123]
        /\ UNCHANGED <<x, res, steps>>

\* a caller gives back a buffer it holds
ReturnBuffer ==
    \E i \in 1..Len(b.held) :
        /\ steps < MaxPoolCalls
        /\ op' = "return_buffer"
        /\ a' = b.held[i].id
        /\ x' = return_buffer(x, b.held[i])
        /\ b' = [b EXCEPT !.held = SubSeq(@, 1, i - 1) \o SubSeq(@, i + 1, Len(@))]
        /\ steps' = steps + 1
        /\ UNCHANGED res

\* a caller gives the pool an array that did not come from it
ReturnForeign ==
    \E n \in ForeignLens :
        /\ steps < MaxPoolCalls
        /\ op' = "return_buffer"
        /\ a' = steps + 1
        /\ x' = return_buffer(x, NewBuffer(steps + 1, n))
        /\ steps' = steps + 1
        /\ UNCHANGED <<b, res>>

NextPool == GetBuffer \/ WriteBuffer \/ ReturnBuffer \/ ReturnForeign

SpecPool == InitPool /\ [][NextPool]_vars

\* the step is a get_buffer call that found an idle buffer, popped it and
\* counted a hit, or found none and counted a miss
HitOrMiss ==
    LET free == x.pools[Align(a')]
    IN IF free # <<>>
       THEN /\ x'.stats.block_hits = x.stats.block_hits + 1
            /\ x'.stats.cache_misses = x.stats.cache_misses
            /\ res' = free[Len(free)]
            /\ x'.pools = [x.pools EXCEPT ![Align(a')] = SubSeq(free, 1, Len(free) - 1)]
       ELSE /\ x'.stats.cache_misses = x.stats.cache_misses + 1
            /\ x'.stats.block_hits = x.stats.block_hits
            /\ x'.pools = x.pools

\* C20: every get_buffer call increments exactly one counter by one:
\* block_hits when the free list of the aligned size was non-empty, a buffer
\* being popped from it, and cache_misses otherwise; block_hits + cache_misses
\* is the number of get_buffer calls, neither counter ever decreases, and
\* return_buffer changes neither.
C20_PoolCounters ==
    /\ [](x.stats.block_hits + x.stats.cache_misses = b.gets)
    /\ [][op' = "get_buffer" => HitOrMiss]_vars
    /\ [][/\ x'.stats.block_hits >= x.stats.block_hits
          /\ x'.stats.cache_misses >= x.stats.cache_misses]_vars
    /\ [][op' = "return_buffer" =>
              /\ x'.stats.block_hits = x.stats.block_hits
              /\ x'.stats.cache_misses = x.stats.cache_misses]_vars

\* test_pool_basic: get_buffer(16), return_buffer, get_buffer(16)
C20_Witness ==
    /\ op = "get_buffer" /\ a = 16 /\ Len(res.data) = 16 /\ steps = 3 /\ b.gets = 2
    /\ x.stats.block_hits = 1 /\ x.stats.cache_misses = 1

\* C28: every buffer returned by get_buffer(size) has exactly aligned_size
\* elements, so at least size, and all of them are zero, also when the buffer
\* is a reused one that a previous holder wrote to before returning it.
C28_ZeroedAligned ==
    op = "get_buffer" =>
        /\ Len(res.data) = Align(a) /\ Len(res.data) >= a
        /\ \A i \in 1..Len(res.data) : res.data[i] = 0

\* what the code does keep: the same for a buffer that the call allocated
C28_NewBuffer ==
    (op = "get_buffer" /\ res.id = steps) =>
        /\ Len(res.data) = Align(a) /\ Len(res.data) >= a
        /\ \A i \in 1..Len(res.data) : res.data[i] = 0

\* the second get_buffer(9) of a caller that returned the first buffer
C28_Reused ==
    /\ op = "get_buffer" /\ a = 9 /\ res.id < steps /\ Len(res.data) = 16
    /\ x.stats.block_hits = 1

\* sum(len(buf) for lst in self.pools.values() for buf in lst) over keys
RECURSIVE ResidentLoop(_, _, _)
ResidentLoop(self, keys, i) ==
    IF keys = {} THEN 0
    ELSE LET k == CHOOSE k \in keys : TRUE
         IN IF i > Len(self.pools[k]) THEN ResidentLoop(self, keys \ {k}, 1)
            ELSE Len(self.pools[k][i].data) + ResidentLoop(self, keys, i + 1)

\* the sum of the lengths of the buffers resident in the free lists
Resident(self) == ResidentLoop(self, PoolKeys, 1)

\* C29: stats.peak_memory equals the largest value ever reached by the sum of
\* the lengths of the buffers resident in the pool's free lists: it is that
\* sum for the new pool and every call leaves it at the larger of its old
\* value and the new sum; it never decreases.
C29_PeakMemory ==
    [][x'.stats.peak_memory = Max(x.stats.peak_memory, Resident(x'))]_vars

\* what the code does keep: peak_memory never decreases
C29_NeverDecreases ==
    [][x'.stats.peak_memory >= x.stats.peak_memory]_vars

\* a miss that raised peak_memory while another buffer was resident
C29_Raised ==
    /\ op = "get_buffer" /\ res.id = steps /\ x.stats.peak_memory > 0
    /\ Resident(x) > 0

(***************************************************************************)
(* CPUMemoryPool shared by several threads.  x is the pool, a is           *)
(* self._lock (the thread that holds it, 0 when it is free), b maps each   *)
(* thread to its frame: pc is the source line it is about to execute,      *)
(* call the number of its current call, aligned the key it computed, tmp   *)
(* the counter value it loaded, local the buffer in its local variable,    *)
(* held the buffers the thread holds between calls and gets the number of  *)
(* get_buffer calls it completed.  res is the set of buffers ever created  *)
(* and steps the number of calls started.  A thread switch can happen      *)
(* between any two lines and between the load and the store of "+= 1".     *)
(***************************************************************************)
MaxThreadCalls == 4

Threads == {1, 2}

ThreadSizes == {8, 9}

\* threading.Lock: "with self._lock" enters when the lock is free
acquire_unlocked(lock) == TRUE

acquire(lock) == lock = 0

IdleFrame ==
    [held |-> <<>>, gets |-> 0, pc |-> "idle", call |-> 0, aligned |-> 0, tmp |-> 0,
     local |-> NoBuffer]

InitThreads ==
    /\ op = "CPUMemoryPool"
    /\ a = 0
    /\ b = [t \in Threads |-> IdleFrame]
    /\ x = NewPool
    /\ res = {}
    /\ steps = 0

\* thread t moves to line pc with the frame changes of frame
Goto(t, frame, pc) == b' = [b EXCEPT ![t] = [frame EXCEPT !.pc = pc]]

\* get_buffer(size) is called: aligned_size = (size + 7) & ~7
CallGet(t) ==
    \E size \in ThreadSizes :
        /\ b[t].pc = "idle" /\ steps < MaxThreadCalls
        /\ op' = "get_buffer"
        /\ steps' = steps + 1
        /\ Goto(t, [b[t] EXCEPT !.call = steps + 1, !.aligned = Align(size)], "get 76")
        /\ UNCHANGED <<a, x, res>>

\* return_buffer(buf) is called on a buffer the thread holds
CallReturn(t) ==
    \E i \in 1..Len(b[t].held) :
        /\ b[t].pc = "idle" /\ steps < MaxThreadCalls
        /\ op' = "return_buffer"
        /\ steps' = steps + 1
        /\ Goto(t, [b[t] EXCEPT !.call = steps + 1,
                                !.aligned = Align(Len(b[t].held[i].data)),
                                !.local = b[t].held[i],
                                !.held = SubSeq(@, 1, i - 1) \o SubSeq(@, i + 1, Len(@))],
                "return 98")
        /\ UNCHANGED <<a, x, res>>

\* with self._lock:
Acquire(t) ==
    /\ b[t].pc \in {"get 76", "return 98"}
    /\ acquire(a)
    /\ a' = t
    /\ Goto(t, b[t], IF b[t].pc = "get 76" THEN "get 78" ELSE "return 99")
    /\ UNCHANGED <<op, x, res, steps>>

\* if aligned_size in self.pools and self.pools[aligned_size]:
TestFree(t) ==
    /\ b[t].pc = "get 78"
    /\ Goto(t, b[t], IF x.pools[b[t].aligned] # <<>> THEN "get 79" ELSE "get 82")
    /\ UNCHANGED <<op, a, x, res, steps>>

\* the load of self.stats.block_hits += 1 and of self.stats.cache_misses += 1
LoadCounter(t) ==
    /\ b[t].pc \in {"get 79", "get 82"}
    /\ Goto(t, [b[t] EXCEPT !.tmp = IF b[t].pc = "get 79" THEN x.stats.block_hits
                                    ELSE x.stats.cache_misses],
            IF b[t].pc = "get 79" THEN "get 79 store" ELSE "get 82 store")
    /\ UNCHANGED <<op, a, x, res, steps>>

\* the store of self.stats.block_hits += 1 and of self.stats.cache_misses += 1
StoreCounter(t) ==
    /\ b[t].pc \in {"get 79 store", "get 82 store"}
    /\ x' = IF b[t].pc = "get 79 store"
            THEN [x EXCEPT !.stats.block_hits = b[t].tmp + 1]
            ELSE [x EXCEPT !.stats.cache_misses = b[t].tmp + 1]
    /\ Goto(t, b[t], IF b[t].pc = "get 79 store" THEN "get 80" ELSE "get 83")
    /\ UNCHANGED <<op, a, res, steps>>

\* return self.pools[aligned_size].pop(), leaving the with block; pop from an
\* empty list raises IndexError
PopFree(t) ==
    /\ b[t].pc = "get 80"
    /\ a' = 0
    /\ IF x.pools[b[t].aligned] = <<>>
       THEN /\ op' = "IndexError"
            /\ Goto(t, b[t], "idle")
            /\ UNCHANGED x
       ELSE /\ op' = op
            /\ x' = [x EXCEPT !.pools[b[t].aligned] = SubSeq(@, 1, Len(@) - 1)]
            /\ Goto(t, [b[t] EXCEPT
                          !.held = Append(@, x.pools[b[t].aligned][Len(x.pools[b[t].aligned])]),
                          !.gets = @ + 1],
                    "idle")
    /\ UNCHANGED <<res, steps>>

\* buf = array.array('Q', [0]*aligned_size)
NewArray(t) ==
    /\ b[t].pc = "get 83"
    /\ res' = res \cup {b[t].call}
    /\ Goto(t, [b[t] EXCEPT !.local = NewBuffer(b[t].call, b[t].aligned)], "get 86")
    /\ UNCHANGED <<op, a, x, steps>>

\* cur_mem = ...; self.stats.peak_memory = max(self.stats.peak_memory, cur_mem)
UpdatePeak(t) ==
    /\ b[t].pc = "get 86"
    /\ x' = [x EXCEPT !.stats.peak_memory =
                          Max(@, IdleBuffers(x, PoolKeys) * b[t].aligned)]
    /\ Goto(t, b[t], "get 88")
    /\ UNCHANGED <<op, a, res, steps>>

\* return buf, leaving the with block
ReturnNew(t) ==
    /\ b[t].pc = "get 88"
    /\ a' = 0
    /\ Goto(t, [b[t] EXCEPT !.held = Append(@, b[t].local), !.local = NoBuffer,
                            !.gets = @ + 1],
            "idle")
    /\ UNCHANGED <<op, x, res, steps>>

\* if size not in self.pools: self.pools[size] = []
EnsureList(t) ==
    /\ b[t].pc = "return 99"
    /\ Goto(t, b[t], "return 101")
    /\ UNCHANGED <<op, a, x, res, steps>>

\* self.pools[size].append(buf), leaving the with block
AppendFree(t) ==
    /\ b[t].pc = "return 101"
    /\ a' = 0
    /\ x' = [x EXCEPT !.pools[b[t].aligned] = Append(@, b[t].local)]
    /\ Goto(t, [b[t] EXCEPT !.local = NoBuffer], "idle")
    /\ UNCHANGED <<op, res, steps>>

NextThreads ==
    \E t \in Threads :
        \/ CallGet(t) \/ CallReturn(t) \/ Acquire(t) \/ TestFree(t)
        \/ LoadCounter(t) \/ StoreCounter(t) \/ PopFree(t) \/ NewArray(t)
        \/ UpdatePeak(t) \/ ReturnNew(t) \/ EnsureList(t) \/ AppendFree(t)

SpecPoolThreads == InitThreads /\ [][NextThreads]_vars

\* the places where the buffer id is: held by a thread between calls, in the
\* local variable of a call in progress, or in a free list
Where(id) ==
    UNION {{<<"held", t, i>> : i \in {j \in 1..Len(b[t].held) : b[t].held[j].id = id}} :
           t \in Threads}
    \cup {<<"local", t, 0>> : t \in {u \in Threads : b[u].local.id = id}}
    \cup UNION {{<<"free", k, i>> : i \in {j \in 1..Len(x.pools[k]) : x.pools[k][j].id = id}} :
                k \in PoolKeys}

\* the get_buffer calls of the threads in S whose counter update is done
RECURSIVE Counted(_)
Counted(S) ==
    IF S = {} THEN 0
    ELSE LET t == CHOOSE t \in S : TRUE
         IN b[t].gets
            + (IF b[t].pc \in {"get 80", "get 83", "get 86", "get 88"} THEN 1 ELSE 0)
            + Counted(S \ {t})

\* C21: under any interleaving of get_buffer and return_buffer calls by
\* several threads that return only buffers they hold, every buffer is in
\* exactly one place, held by one caller or resident in one free list, and no
\* counter update or free-list entry is lost.
C21_ExactlyOnePlace ==
    /\ \A id \in res : Cardinality(Where(id)) = 1
    /\ x.stats.block_hits + x.stats.cache_misses = Counted(Threads)
    /\ x.stats.cache_misses =
           Cardinality(res) + Cardinality({t \in Threads : b[t].pc = "get 83"})
    /\ op # "IndexError"

\* thread 2 waits for the lock while thread 1 is about to pop the only free
\* buffer of the size that both asked for
C21_Witness ==
    /\ a = 1 /\ b[1].pc = "get 80" /\ b[2].pc = "get 76"
    /\ b[1].aligned = b[2].aligned /\ Len(x.pools[b[1].aligned]) = 1

(***************************************************************************)
(* The limb width as class attributes.  MegaNumber declares                *)
(* _global_chunk_size, _base, _mask = None and _auto_detect_done = False;  *)
(* MegaInteger, MegaFloat and MegaBinary declare none of them, so a read   *)
(* through a subclass finds MegaNumber's value until a write through that  *)
(* subclass puts an attribute of its own in front of it.  Here x maps each *)
(* class to its own attributes (0 and FALSE: none of its own, or None and  *)
(* False in MegaNumber), b lists the runs of the benchmark, steps counts   *)
(* them and a is the class last used.  _base and _mask are kept as         *)
(* little-endian sequences of 8-bit digits, 1 << 64 being out of range.    *)
(***************************************************************************)
Classes == {"MegaNumber", "MegaInteger", "MegaFloat", "MegaBinary"}

\* candidates = [8, 16, 32, 64]; the benchmark may pick any of them
Candidates == {8, 16, 32, 64}

\* 1 << w
ShiftOne(w) == Zeros(w \div 8) \o <<2 ^ (w % 8)>>

RECURSIVE MinusOne(_)
\* v - 1 for v >= 1, with the top digit dropped when it becomes zero
MinusOne(v) ==
    IF v[1] > 0
    THEN IF Len(v) = 1 \/ v[1] > 1 THEN <<v[1] - 1>> \o Tail(v)
         ELSE IF \A i \in 2..Len(v) : v[i] = 0 THEN <<0>> ELSE <<0>> \o Tail(v)
    ELSE LET rest == MinusOne(Tail(v))
         IN  IF rest = <<0>> THEN <<255>> ELSE <<255>> \o rest

NoAttrs ==
    [_global_chunk_size |-> 0, _base |-> <<>>, _mask |-> <<>>,
     _auto_detect_done |-> FALSE]

\* attribute lookup through the class cls: its own value, else MegaNumber's
ClassAttr_chunk(attrs, cls) ==
    IF attrs[cls]._global_chunk_size # 0 THEN attrs[cls]._global_chunk_size
    ELSE attrs["MegaNumber"]._global_chunk_size

ClassAttr_done(attrs, cls) ==
    attrs[cls]._auto_detect_done \/ attrs["MegaNumber"]._auto_detect_done

ClassAttr_base(attrs, cls) ==
    IF attrs[cls]._global_chunk_size # 0 THEN attrs[cls]._base
    ELSE attrs["MegaNumber"]._base

ClassAttr_mask(attrs, cls) ==
    IF attrs[cls]._global_chunk_size # 0 THEN attrs[cls]._mask
    ELSE attrs["MegaNumber"]._mask

\* cls._auto_pick_chunk_size() with the benchmark won by best_csize
_auto_pick_chunk_size(attrs, cls, best_csize) ==
    [attrs EXCEPT ![cls] =
        [@ EXCEPT !._global_chunk_size = best_csize,
                  !._base = ShiftOne(best_csize),
                  !._mask = MinusOne(ShiftOne(best_csize))]]

\* the head of MegaNumber.__init__, run for an object of class cls;
\* st is <<class attributes, benchmark runs>>
InitHead(st, cls, best_csize) ==
    IF ClassAttr_done(st[1], cls) THEN st
    ELSE <<[_auto_pick_chunk_size(st[1], cls, best_csize)
                EXCEPT ![cls]._auto_detect_done = TRUE],
           Append(st[2], <<cls, best_csize>>)>>

\* the head of from_decimal_string, from_int, from_binary_string, ...
ClassMethodHead(st, cls, best_csize) ==
    IF ClassAttr_chunk(st[1], cls) # 0 THEN st
    ELSE <<[_auto_pick_chunk_size(st[1], cls, best_csize)
                EXCEPT ![cls]._auto_detect_done = TRUE],
           Append(st[2], <<cls, best_csize>>)>>

\* MegaBinary.__init__ hands keep_leading_zeros to MegaNumber.__init__, which
\* has no such parameter: the call raises before its first line
ReachesInit(cls) == cls # "MegaBinary"

InitClass ==
    /\ op = "init" /\ a = "" /\ res = "" /\ steps = 0
    /\ b = <<>>
    /\ x = [cls \in Classes |-> NoAttrs]

\* cls(mantissa, exponent, ...)
UseConstructor ==
    \E cls \in Classes, w \in Candidates :
        LET st == IF ReachesInit(cls) THEN InitHead(<<x, b>>, cls, w)
                  ELSE <<x, b>>
        IN  /\ op' = "__init__"
            /\ a' = cls
            /\ res' = IF ReachesInit(cls) THEN "object" ELSE "TypeError"
            /\ x' = st[1] /\ b' = st[2] /\ steps' = Len(st[2])

\* cls.from_decimal_string(...): the head, then the cls(...) that builds the
\* result
UseClassMethod ==
    \E cls \in Classes, w1 \in Candidates, w2 \in Candidates :
        LET st1 == ClassMethodHead(<<x, b>>, cls, w1)
            st  == IF ReachesInit(cls) THEN InitHead(st1, cls, w2) ELSE st1
        IN  /\ op' = "from_decimal_string"
            /\ a' = cls
            /\ res' = IF ReachesInit(cls) THEN "object" ELSE "TypeError"
            /\ x' = st[1] /\ b' = st[2] /\ steps' = Len(st[2])

NextClass == UseConstructor \/ UseClassMethod

SpecClass == InitClass /\ [][NextClass]_vars

\* the classes through which a limb width can be read
HasWidth(attrs) == {cls \in Classes : ClassAttr_chunk(attrs, cls) # 0}

\* every class that has a limb width has the same one
SameWidth == \A c \in HasWidth(x), d \in HasWidth(x) :
                 ClassAttr_chunk(x, c) = ClassAttr_chunk(x, d)

\* a limb width, once readable through a class, stays what it is
WidthKept == \A cls \in HasWidth(x) :
                 ClassAttr_chunk(x', cls) = ClassAttr_chunk(x, cls)

\* C24: the auto-pick runs at most once per process, the limb width W read
\* through any class never changes once set, and all four classes read the
\* same W, with BASE = 2^W and MASK = BASE - 1
C24_WidthFrozen ==
    /\ [](steps <= 1 /\ SameWidth)
    /\ [][WidthKept]_vars

\* C24, the part that holds: read through any one class, W never changes once
\* set
C24_WidthKept == [][WidthKept]_vars

\* C24, the part that holds: through every class BASE = 2^W and MASK = BASE - 1
C24_BaseAndMask ==
    \A cls \in HasWidth(x) :
        LET w == ClassAttr_chunk(x, cls)
        IN  /\ ClassAttr_base(x, cls) = Zeros(w \div 8) \o <<1>>
            /\ ClassAttr_mask(x, cls) = [i \in 1..(w \div 8) |-> 255]
            /\ w \in Candidates

\* C24: MegaInteger used first through a class method, then MegaNumber through
\* its constructor: two benchmark runs and two limb widths in one process
C24_TwoWidths ==
    /\ b = <<<<"MegaInteger", 8>>, <<"MegaNumber", 16>>>>
    /\ ClassAttr_chunk(x, "MegaInteger") = 8
    /\ ClassAttr_chunk(x, "MegaFloat") = 16

(***************************************************************************)
(* The caller's objects across a call.  a holds the objects handed to a    *)
(* call (the receiver first) as they are before it, b the same objects as  *)
(* they are after it, res what the call returned and x the fraction kept   *)
(* as receiver of the next fraction call.  The writes of the code to       *)
(* objects are: numerator.negative and denominator.negative in             *)
(* MegaFraction.__init__, the limbs and sign of e in _shr1_inplace, and    *)
(* .negative of q, r_abs and y, objects made inside the call.              *)
(***************************************************************************)
MaxObjInt == 2

ObjInts == (-MaxObjInt)..MaxObjInt

\* the objects <<exponent, e>> of MegaNumber.pow while its loop runs
RECURSIVE HalvingLoop(_)
HalvingLoop(objs) ==
    IF IsZeroLimbs(objs[2].mantissa) THEN objs
    ELSE HalvingLoop(<<objs[1], _shr1_inplace(objs[2])>>)

\* the caller's exponent after self.pow(exponent): e = exponent.copy()
ExponentAfterPow(exponent) ==
    IF exponent.negative \/ IsZeroLimbs(exponent.mantissa) THEN exponent
    ELSE HalvingLoop(<<exponent, copy(exponent)>>)[1]

\* the caller's two objects after MegaFraction(numerator, denominator)
ArgsAfterInit(numerator, denominator, same) ==
    IF hpc_is_zero(denominator) \/ IsErr(hpc_gcd(numerator, denominator))
    THEN <<numerator, denominator>>
    ELSE InitArgs(numerator, denominator, same)

InitObj ==
    /\ op = "init"
    /\ a = <<from_int(0), from_int(1)>>
    /\ b = a
    /\ res = from_int(0)
    /\ x = MegaFraction(from_int(0), from_int(1))
    /\ steps = 0

\* self.add(other), sub, mul, div: no statement writes to self or other
ObjArith ==
    \E s \in ObjInts, o \in ObjInts, name \in {"add", "sub", "mul", "div"} :
        LET self == from_int(s)
            other == from_int(o)
        IN  /\ op' = name
            /\ a' = <<self, other>>
            /\ b' = <<self, other>>
            /\ res' = CASE name = "add" -> add(self, other)
                        [] name = "sub" -> sub(self, other)
                        [] name = "mul" -> mul(self, other)
                        [] OTHER -> div(self, other)
            /\ UNCHANGED <<x, steps>>

\* self.pow(exponent): the loop halves e in place
ObjPow ==
    \E s \in ObjInts, o \in ObjInts :
        LET self == from_int(s)
            exponent == from_int(o)
        IN  /\ op' = "pow"
            /\ a' = <<self, exponent>>
            /\ b' = <<self, ExponentAfterPow(exponent)>>
            /\ res' = pow(self, exponent)
            /\ UNCHANGED <<x, steps>>

\* self.sqrt() and self.copy(): high = A[:] and self.mantissa[:] are new lists
ObjUnary ==
    \E s \in ObjInts, name \in {"sqrt", "copy"} :
        LET self == from_int(s)
        IN  /\ op' = name
            /\ a' = <<self>>
            /\ b' = <<self>>
            /\ res' = IF name = "sqrt" THEN sqrt(self) ELSE copy(self)
            /\ UNCHANGED <<x, steps>>

\* MegaFraction(numerator, denominator), on two objects or on one passed twice
ObjConstruct ==
    \E n \in ObjInts, d \in ObjInts, same \in BOOLEAN :
        /\ same => n = d
        /\ op' = (IF same THEN "MegaFraction(z, z)" ELSE "MegaFraction")
        /\ a' = <<from_int(n), from_int(d)>>
        /\ b' = ArgsAfterInit(from_int(n), from_int(d), same)
        /\ res' = MegaFractionInit(from_int(n), from_int(d), same)
        /\ x' = KeepFrac(res', x)
        /\ UNCHANGED steps

\* x.add(o), sub, mul, div, x.copy(): the constructor they end in is given
\* the products and copies made inside the call, which the caller never sees
ObjFraction ==
    \E o \in FracOperands, name \in {"add", "sub", "mul", "div", "copy"} :
        /\ op' = "MegaFraction." \o name
        /\ a' = <<x.num, x.den, o.num, o.den>>
        /\ b' = <<x.num, x.den, o.num, o.den>>
        /\ res' = CASE name = "add" -> MegaFraction_add(x, o)
                    [] name = "sub" -> MegaFraction_sub(x, o)
                    [] name = "mul" -> MegaFraction_mul(x, o)
                    [] name = "div" -> MegaFraction_div(x, o)
                    [] OTHER -> MegaFraction_copy(x)
        /\ UNCHANGED <<x, steps>>

\* the "while True" of to_decimal_string_unbounded from its first test on
RECURSIVE DigitsUntilZero(_, _)
DigitsUntilZero(self, loc) ==
    IF loc.err # "" THEN TextErr(loc.err)
    ELSE IF hpc_is_zero(loc.r_abs) THEN Text(UnboundedText(loc))
    ELSE Bind(DigitIteration(self, loc), LAMBDA nxt : DigitsUntilZero(self, nxt))

\* self.to_decimal_string_unbounded(), for a self whose expansion ends
to_decimal_string_unbounded(self) ==
    Bind(UnboundedLocals(self), LAMBDA loc :
        IF loc.err # "" THEN TextErr(loc.err)
        ELSE IF hpc_is_zero(loc.r_abs) THEN Text(loc.sign_str \o loc.int_str)
        ELSE Bind(DigitIteration(self, loc), LAMBDA nxt : DigitsUntilZero(self, nxt)))

\* x.to_decimal_string_unbounded() on a terminating x: q and r_abs, whose
\* signs it clears, come from hpc_divmod and r.copy()
ObjFormat ==
    /\ TwoFive(decode(x.den.mantissa))
    /\ op' = "to_decimal_string_unbounded"
    /\ a' = <<x.num, x.den>>
    /\ b' = <<x.num, x.den>>
    /\ res' = to_decimal_string_unbounded(x)
    /\ UNCHANGED <<x, steps>>

NextObj ==
    ObjArith \/ ObjPow \/ ObjUnary \/ ObjConstruct \/ ObjFraction \/ ObjFormat

SpecObj == InitObj /\ [][NextObj]_vars

\* C25: no call to add, sub, mul, div, pow, sqrt, copy, the MegaFraction
\* constructor, a MegaFraction operation or to_decimal_string_unbounded
\* changes the mantissa, exponent or sign of the receiver or of a MegaNumber
\* the caller passed in
C25_Immutable == b = a

\* C25, the part that holds: every call but the constructor called on the
\* caller's own objects leaves them as they were; pow leaves the exponent
C25_AllButConstructor == op \notin {"MegaFraction", "MegaFraction(z, z)"} => b = a

\* C25: pow has run its halving loop on an exponent above 1
C25_PowRan == op = "pow" /\ ~IsErr(res) /\ a[2].mantissa = <<2>> /\ b[2] = a[2]

\* C25: MegaFraction(1, -2) returned -1/2 and left the caller's 1 negative
\* and the caller's -2 positive
C25_ArgumentsFlipped ==
    /\ op = "MegaFraction" /\ res.err = ""
    /\ ~a[1].negative /\ a[2].negative
    /\ b[1].negative /\ ~b[2].negative
    /\ a[1].mantissa = <<1>> /\ a[2].mantissa = <<2>>

(***************************************************************************)
(* Float multiplication, checked on the calls of Spec.                     *)
(***************************************************************************)
\* the product of the mantissas, the XOR of the signs and the sum of the
\* signed exponents; a zero product is normalised to +0 with exponent 0
IsFloatProduct(r, self, other) ==
    /\ ~IsErr(r)
    /\ r.mantissa = LimbProduct(self.mantissa, other.mantissa)
    /\ ~IsZeroLimbs(r.mantissa) =>
           /\ r.negative = (self.negative # other.negative)
           /\ exp_as_int(r) = exp_as_int(self) + exp_as_int(other)

\* C26: for all float-mode numbers a and b, values parsed by
\* from_decimal_string included, a.mul(b) returns the product of the
\* mantissas with the XOR of the signs and the sum of the signed exponents
C26_FloatMul ==
    (op = "mul" /\ a.is_float /\ b.is_float) => IsFloatProduct(res, a, b)

\* C26, the part that holds: on a receiver of class MegaNumber, which runs
\* MegaNumber.mul
C26_MegaNumberFloatMul ==
    (op = "mul" /\ a.cls = "MegaNumber" /\ a.is_float /\ b.is_float) =>
        IsFloatProduct(res, a, b)

\* C26: MegaNumber.mul has multiplied two floats with exponents of opposite
\* sign
C26_ExponentsAdded ==
    /\ op = "mul" /\ a.cls = "MegaNumber" /\ a.is_float /\ b.is_float
    /\ ~IsErr(res) /\ ~IsZeroLimbs(res.mantissa)
    /\ exp_as_int(a) > 0 /\ exp_as_int(b) < 0

\* C26: two values parsed by from_decimal_string were multiplied and the call
\* raised
C26_ParsedOperandsRaise ==
    /\ op = "mul" /\ a.cls = "MegaFloat" /\ b.cls = "MegaFloat"
    /\ a.is_float /\ b.is_float /\ IsErr(res)

(***************************************************************************)
(* MegaBinary.  A caller writes expressions on bit texts: MegaBinary(s),   *)
(* MegaBinary.interfere([...], mode), MegaBinary(s).shift_left(...), and   *)
(* so on.  a holds the texts of the expression, b its second input, res    *)
(* what it evaluated to; x and steps are not used.  A call whose argument  *)
(* or receiver raised is not entered: the exception of the operand is the  *)
(* outcome.                                                                *)
(***************************************************************************)
MaxBitLen == 2

\* shift counts and bit positions: inside a limb, a whole limb, both, two limbs
BitCounts == {0, 3, 8, 11, 16}

\* the parameters of MegaNumber.__init__
MegaNumberInitParams == {"mantissa", "exponent", "negative", "is_float", "exponent_negative"}

\* the keywords MegaBinary.__init__ passes to super().__init__ by itself
MegaBinarySuperKeywords == MegaNumberInitParams \cup {"keep_leading_zeros"}

\* bin(n)[2:]
RECURSIVE NatToBin(_)
NatToBin(n) ==
    IF n < 2 THEN <<DigitChars[n + 1]>>
    ELSE NatToBin(n \div 2) \o <<DigitChars[(n % 2) + 1]>>

\* bit texts of one limb, and one of two limbs (257)
BitTexts == Strings({"0", "1"}, MaxBitLen) \cup {NatToBin(_base + 1)}

\* int(bin_str, 2) after the "0b" prefix and the empty text are handled
BinValue(value) ==
    LET s == IF Len(value) >= 2 /\ value[1] = "0" /\ value[2] = "b"
             THEN SubSeq(value, 3, Len(value)) ELSE value
    IN  BinToInt(IF s = <<>> THEN <<"0">> ELSE s, 1, 0)

\* MegaBinary.__init__(value, keep_leading_zeros, **kwargs): the call of
\* super().__init__ comes first, then _parse_binary_string and _normalize
MegaBinaryInit(value, kwargs) ==
    IF kwargs \cap MegaBinarySuperKeywords # {} THEN Err("TypeError")
    ELSE IF ~((MegaBinarySuperKeywords \cup kwargs) \subseteq MegaNumberInitParams)
    THEN Err("TypeError")
    ELSE _normalize(Num("MegaBinary",
                        _int_to_chunklist(BinValue(value), _global_chunk_size),
                        <<0>>, FALSE, FALSE, FALSE))

MegaBinary(value) == MegaBinaryInit(value, {})

\* a call f(p, q) whose operands p, q are evaluated first, left to right
Strict2(p, q, F(_, _)) ==
    Bind2(p, q, LAMBDA vp, vq :
        IF vp.err # "" THEN vp ELSE IF vq.err # "" THEN vq ELSE F(vp, vq))

\* self.__class__(bin(self._chunklist_to_int(result.mantissa))[2:])
Rewrap(result) ==
    IF IsErr(result) THEN result
    ELSE MegaBinary(NatToBin(_chunklist_to_int(result.mantissa)))

MegaBinary_sub(self, other) == Rewrap(MegaNumber_sub(self, other))

MegaBinary_mul(self, other) == Rewrap(MegaNumber_mul(self, other))

MegaBinary_div(self, other) ==
    IF IsZeroLimbs(other.mantissa) THEN Err("ZeroDivisionError")
    ELSE Rewrap(MegaNumber_div(self, other))

\* chunk_shifts and bit_shifts of the shifts, as <<q, r>>; the constructor
\* call that builds the divisor is evaluated before bits.div is entered
SplitCount(bits) ==
    Bind(MegaBinary(NatToBin(_global_chunk_size)), LAMBDA w :
        IF IsErr(w) THEN <<w, w>>
        ELSE Bind(MegaBinary_div(bits, w), LAMBDA q :
            IF IsErr(q) THEN <<q, q>>
            ELSE Bind(Strict2(q, w, MegaBinary_mul), LAMBDA qw :
                IF IsErr(qw) THEN <<qw, qw>>
                ELSE <<q, MegaBinary_sub(bits, qw)>>)))

\* MegaBinary.shift_left: array.array(self._chunk_code, ...) follows the
\* split of the count, and no class defines _chunk_code
shift_left(self, bits) ==
    Bind(SplitCount(bits), LAMBDA qr :
        IF IsErr(qr[1]) THEN qr[1]
        ELSE IF IsErr(qr[2]) THEN qr[2]
        ELSE Err("AttributeError"))

\* MegaBinary.shift_right
shift_right(self, bits) ==
    Bind(SplitCount(bits), LAMBDA qr :
        IF IsErr(qr[1]) THEN qr[1]
        ELSE IF IsErr(qr[2]) THEN qr[2]
        ELSE IF _chunklist_to_int(qr[1].mantissa) >= Len(self.mantissa)
        THEN MegaBinary(<<"0">>)
        ELSE Err("AttributeError"))

\* MegaBinary.interfere(waves, mode): with two waves or more the first
\* statement of the loop reads result._chunk_code
interfere(waves, mode) ==
    IF waves = <<>> THEN Err("ValueError")
    ELSE IF Len(waves) = 1 THEN waves[1]
    ELSE Err("AttributeError")

\* the list [w1, w2, ...] is built before interfere is entered
CallInterfere(waves, mode) ==
    IF \E i \in 1..Len(waves) : waves[i].err # ""
    THEN waves[CHOOSE i \in 1..Len(waves) :
                   waves[i].err # "" /\ \A j \in 1..(i - 1) : waves[j].err = ""]
    ELSE interfere(waves, mode)

\* bit off of a limb
BitAt(limb, off) == (limb \div (2 ^ off)) % 2

\* chunk_index and bit_offset of get_bit and set_bit, as a MegaBinary and a
\* MegaBinary; the error of the first call that raises otherwise
SplitPosition(position) ==
    Bind(MegaBinary(NatToBin(_global_chunk_size)), LAMBDA w :
        IF IsErr(w) THEN <<w, w>>
        ELSE Bind(MegaBinary_div(position, w), LAMBDA q :
            IF IsErr(q) THEN <<q, q>>
            ELSE Bind(Strict2(w, q, MegaBinary_mul), LAMBDA wq :
                IF IsErr(wq) THEN <<wq, wq>>
                ELSE <<q, MegaBinary_sub(position, wq)>>)))

\* MegaBinary.get_bit; the bool it returns is the text True or False
get_bit(self, position) ==
    Bind(SplitPosition(position), LAMBDA qr :
        IF IsErr(qr[1]) THEN TextErr(qr[1].err)
        ELSE IF IsErr(qr[2]) THEN TextErr(qr[2].err)
        ELSE LET chunk_index == _chunklist_to_int(qr[1].mantissa)
                 bit_offset == _chunklist_to_int(qr[2].mantissa)
             IN  IF chunk_index >= Len(self.mantissa) THEN Text(<<"False">>)
                 ELSE IF BitAt(self.mantissa[chunk_index + 1], bit_offset) = 1
                 THEN Text(<<"True">>) ELSE Text(<<"False">>))

\* MegaBinary.set_bit: the receiver after the call, or the error raised
set_bit(self, position, value) ==
    Bind(SplitPosition(position), LAMBDA qr :
        IF IsErr(qr[1]) THEN qr[1]
        ELSE IF IsErr(qr[2]) THEN qr[2]
        ELSE LET chunk_index == _chunklist_to_int(qr[1].mantissa)
                 bit_offset == _chunklist_to_int(qr[2].mantissa)
                 m == self.mantissa \o Zeros(Max(0, chunk_index + 1 - Len(self.mantissa)))
                 old == BitAt(m[chunk_index + 1], bit_offset)
                 limb == m[chunk_index + 1] + ((IF value THEN 1 ELSE 0) - old) * (2 ^ bit_offset)
             IN  _normalize([self EXCEPT !.mantissa = [m EXCEPT ![chunk_index + 1] = limb]]))

\* a wave the caller can hand to interfere: a MegaBinary, or a MegaNumber
\* built by MegaNumber.from_binary_string
Wave(s, class) ==
    IF class = "MegaBinary" THEN MegaBinary(s) ELSE from_binary_string(s)

InitBin ==
    /\ op = "init" /\ a = <<>> /\ b = <<>> /\ steps = 0
    /\ res = Err("None") /\ x = Err("None")

\* MegaBinary(s), and MegaBinary reached through a class method of
\* MegaNumber, which ends in cls(mantissa=..., exponent=..., negative=...)
NewBinary ==
    \E s \in BitTexts \cup {<<"0", "b", "1">>},
       kwargs \in {{}, {"mantissa", "exponent", "negative"}} :
        /\ op' = (IF kwargs = {} THEN "MegaBinary" ELSE "from_binary_string")
        /\ a' = <<s>>
        /\ b' = <<>>
        /\ res' = MegaBinaryInit(s, kwargs)
        /\ UNCHANGED <<x, steps>>

\* MegaBinary.interfere on waves built from the texts s and t
Interfere ==
    \E s \in BitTexts, t \in BitTexts, class \in {"MegaBinary", "MegaNumber"},
       form \in {"XOR(x, XOR(x, y))", "AND(x, x)", "OR(x, 0)", "XOR(x)", "XOR()"} :
        LET wx == Wave(s, class)
            wy == Wave(t, class)
        IN  /\ op' = form
            /\ a' = <<s, t>>
            /\ b' = <<class>>
            /\ res' = CASE form = "XOR(x, XOR(x, y))" ->
                               CallInterfere(<<wx, CallInterfere(<<wx, wy>>, "XOR")>>, "XOR")
                        [] form = "AND(x, x)" -> CallInterfere(<<wx, wx>>, "AND")
                        [] form = "OR(x, 0)" ->
                               CallInterfere(<<wx, Wave(<<"0">>, class)>>, "OR")
                        [] form = "XOR(x)" -> CallInterfere(<<wx>>, "XOR")
                        [] OTHER -> CallInterfere(<<>>, "XOR")
            /\ UNCHANGED <<x, steps>>

\* MegaBinary(s).shift_left(MegaBinary(k)), shift_right, and one after the
\* other
Shift ==
    \E s \in BitTexts, k \in BitCounts,
       form \in {"shift_left", "shift_right", "shift_right(shift_left)"} :
        LET self == MegaBinary(s)
            bits == MegaBinary(NatToBin(k))
        IN  /\ op' = form
            /\ a' = <<s>>
            /\ b' = NatToBin(k)
            /\ res' = CASE form = "shift_left" -> Strict2(self, bits, shift_left)
                        [] form = "shift_right" -> Strict2(self, bits, shift_right)
                        [] OTHER -> Strict2(Strict2(self, bits, shift_left), bits, shift_right)
            /\ UNCHANGED <<x, steps>>

\* MegaBinary(s).get_bit(MegaBinary(j)), alone or after set_bit(MegaBinary(i), v)
Bits ==
    \E s \in BitTexts, i \in BitCounts, j \in BitCounts, v \in BOOLEAN,
       form \in {"get_bit", "set_bit; get_bit"} :
        LET self == MegaBinary(s)
            pi == MegaBinary(NatToBin(i))
            pj == MegaBinary(NatToBin(j))
            after == IF form = "get_bit" THEN self
                     ELSE Strict2(self, pi, LAMBDA p, q : set_bit(p, q, v))
        IN  /\ op' = form
            /\ a' = <<s, NatToBin(i), IF v THEN "True" ELSE "False">>
            /\ b' = NatToBin(j)
            /\ res' = IF after.err # "" THEN TextErr(after.err)
                      ELSE IF pj.err # "" THEN TextErr(pj.err)
                      ELSE get_bit(after, pj)
            /\ UNCHANGED <<x, steps>>

NextBin == NewBinary \/ Interfere \/ Shift \/ Bits

SpecBin == InitBin /\ [][NextBin]_vars

\* the bit at position j of the number n, as the text get_bit returns
BitText(n, j) == IF (n \div (2 ^ j)) % 2 = 1 THEN <<"True">> ELSE <<"False">>

\* C22: for all MegaBinary x and y, operands of different limb counts
\* included, XOR(x, XOR(x, y)) = y, AND(x, x) = x and OR(x, 0) = x by value
C22_InterfereIdentities ==
    (op \in {"XOR(x, XOR(x, y))", "AND(x, x)", "OR(x, 0)"} /\ b = <<"MegaBinary">>) =>
        /\ res.err = ""
        /\ _chunklist_to_int(res.mantissa) =
               BinValue(IF op = "XOR(x, XOR(x, y))" THEN a[2] ELSE a[1])

\* C22: the first identity was evaluated on two MegaBinary operands and raised
C22_Raised == op = "XOR(x, XOR(x, y))" /\ b = <<"MegaBinary">> /\ res.err = "TypeError"

\* C23: for every MegaBinary x and shift count k >= 0, shift_left(x, k) has
\* the value x * 2^k, shift_right(x, k) the value floor(x / 2^k), and
\* shift_right(shift_left(x, k), k) equals x
C23_ShiftIdentity ==
    LET k == BinValue(b)
    IN  /\ op = "shift_left" =>
               res.err = "" /\ _chunklist_to_int(res.mantissa) = BinValue(a[1]) * (2 ^ k)
        /\ op = "shift_right" =>
               res.err = "" /\ _chunklist_to_int(res.mantissa) = BinValue(a[1]) \div (2 ^ k)
        /\ op = "shift_right(shift_left)" =>
               res.err = "" /\ _chunklist_to_int(res.mantissa) = BinValue(a[1])

\* C23: a shift by a whole limb and three bits was evaluated and raised
C23_Raised == op = "shift_left" /\ BinValue(b) = 11 /\ res.err = "TypeError"

\* C30: after set_bit(i, v), get_bit(i) = v and get_bit(j) is what it was for
\* every j # i; get_bit returns the bit of the value and False beyond the
\* stored limbs
C30_SetBitGetBit ==
    LET j == BinValue(b)
    IN  /\ op = "get_bit" => res.err = "" /\ res.text = BitText(BinValue(a[1]), j)
        /\ op = "set_bit; get_bit" =>
               /\ res.err = ""
               /\ res.text = IF BinValue(a[2]) = j THEN <<a[3]>>
                             ELSE BitText(BinValue(a[1]), j)

\* C30: set_bit beyond the stored limbs followed by get_bit was evaluated
\* and raised
C30_Raised ==
    /\ op = "set_bit; get_bit" /\ BinValue(a[2]) = 16 /\ BinValue(b) = 16
    /\ res.err = "TypeError"

\* no expression ever evaluates to a MegaBinary object
NoMegaBinary == op \notin {"get_bit", "set_bit; get_bit"} => res.cls # "MegaBinary"

====
